---- MODULE Spec2Model ----
(***************************************************************************)
(* Tool-orchestration loop of the EEA SDI chatbot backend.                 *)
(*                                                                         *)
(*   back/src/lib/mcpClient.ts   MCPClientWrapper (registry + invoker)     *)
(*   back/src/routes/chat.ts     router.post('/') (orchestrator + relay)   *)
(*   back/src/index.ts           server start-up                           *)
(*                                                                         *)
(* Node runs each handler to its next await without interruption, so one   *)
(* action is the code between two awaits.  The model provider, the tool    *)
(* server and the HTTP client are the environment: their answers are       *)
(* drawn from small sets.                                                  *)
(***************************************************************************)
EXTENDS Integers, Sequences, FiniteSets, TLC

VARIABLES
    \* ---- MCPClientWrapper singleton (mcpClient.ts:27-36) ----
    initialized,      \* this.initialized
    client,           \* this.client: "null" or the state of the Client object
    transport,        \* this.transport: "null" or "set"
    availableTools,   \* this.availableTools
    initPc,           \* position of the initialize() call in flight
    initResult,       \* what the last initializeMCP() call returned
    discPc,           \* position of the disconnect() call in flight
    \* ---- process environment ----
    apiKeySet,        \* process.env.OPENAI_API_KEY is set
    \* ---- one chat turn: locals of router.post('/') ----
    pc,               \* position of the handler
    prompt,           \* req.body.prompt
    mcpEnabled,       \* const mcpEnabled
    messages,         \* let messages
    firstContent,     \* message.content of the first response
    toolCalls,        \* message.tool_calls of the first response
    k,                \* index of the tool call being processed
    caught,           \* error.message seen by the catch block, or NoError
    \* ---- the response object res ----
    headersSent,      \* res.headersSent
    status,           \* HTTP status, 0 while not decided
    body,             \* JSON body sent by res.json, or NoBody
    chunks,           \* contents of the data: lines written by res.write
    ended,            \* the response has been finished
    endCount,         \* how many times the response was finished
    \* ---- collaborators ----
    modelCalls,       \* requests received by the model provider, in order
    stream,           \* frames of the provider stream of the turn
    pos,              \* how many frames the for-await loop has consumed
    streamFails,      \* the provider stream raises after its last frame
    toolLog,          \* calls received by the tool server, with outcomes
    \* ---- the chat client reading the response body ----
    received,         \* how many characters of the body reader.read() gave
    buffer,           \* let buffer
    fullContent,      \* let fullContent
    readerDone,       \* reader.read() has answered done
    clientGone,       \* the client has closed the connection of the turn
    writesAtClose,    \* how many data lines were written when it closed
    \* ---- /api/sdi: one express session and its requests ----
    session,          \* req.session of the session store
    sdiPending,       \* locals of the /connect request in flight
    sdiLog,           \* the requests answered so far, in order of completion
    statusReply,      \* body of the last answer of /status
    \* ---- two invocations of router.post('/') at the same time ----
    turns,            \* per invocation: its locals, its response, its calls
    msgsOf,           \* per scope of let messages: the message list
    \* ---- initialize() run by two callers at the same time ----
    ovCalls,          \* per caller: position, Client it created and lists on
    handles,          \* connection state of every Client object created
    clientId,         \* which Client object this.client refers to, 0 if none
    cachedOn,         \* the Client object whose list is in availableTools
    \* ---- MCPService of the browser (services/mcpService.ts) ----
    svcInitialized,   \* this.initialized
    sseConnected,     \* this.sseConnected
    eventSource,      \* this.eventSource: 0 for null, else the object's number
    svcAvailableTools, \* this.availableTools
    svcPc,            \* position of the initialize() call in flight
    sources,          \* how many EventSource objects were created
    timers,           \* connection timers that have not fired yet
    \* ---- the chat window (modules/chatbotModule.tsx) ----
    chatGptMessages,  \* const [chatGptMessages, setChatGptMessages]
    uiCalls           \* per submitted prompt: locals of handleNewPrompt

regVars  == <<initialized, client, transport, availableTools, initPc,
              initResult, discPc>>
turnVars == <<pc, prompt, mcpEnabled, messages, firstContent, toolCalls, k,
              caught>>
resVars  == <<headersSent, status, body, chunks, ended, endCount>>
envVars  == <<modelCalls, stream, pos, streamFails, toolLog>>
cliVars  == <<received, buffer, fullContent, readerDone, clientGone,
              writesAtClose>>
sdiVars  == <<session, sdiPending, sdiLog, statusReply>>
conVars  == <<turns, msgsOf>>
ovVars   == <<ovCalls, handles, clientId, cachedOn>>
svcVars  == <<svcInitialized, sseConnected, eventSource, svcAvailableTools,
              svcPc, sources, timers>>
uiVars   == <<chatGptMessages, uiCalls>>
extVars  == <<ovVars, svcVars, uiVars>>
sideVars == <<cliVars, sdiVars, conVars, extVars>>
vars     == <<regVars, apiKeySet, turnVars, resVars, envVars, cliVars,
              sdiVars, conVars, extVars>>

\* JavaScript undefined / null for an optional field.
Undefined == "undefined"

-----------------------------------------------------------------------------
(* Tool descriptors served by the tool server (interface MCPTool).          *)

SearchTool ==
    [name |-> "search_catalogue", description |-> "Search datasets",
     inputSchema |-> "schema:search"]

RecordTool ==
    [name |-> "get_record_details", description |-> Undefined,
     inputSchema |-> Undefined]

\* The lists the tool server may answer to listTools.
ServerToolLists == { <<>>, <<SearchTool, RecordTool>> }

DefaultSchema == "schema:{type:object,properties:{},required:[]}"

-----------------------------------------------------------------------------
(* MCPClientWrapper: pure reads.                                            *)

isInitialized == initialized

getTools == IF ~initialized THEN <<>> ELSE availableTools

\* Variant: an absent description or schema is passed on as it is.
OpenAIToolNoDefaults(tool) ==
    [type |-> "function",
     function |-> [name |-> tool.name, description |-> tool.description,
                   parameters |-> tool.inputSchema]]

\* tool => ({ type: 'function', function: { name, description, parameters } })
OpenAITool(tool) ==
    [type |-> "function",
     function |->
        [name |-> tool.name,
         description |-> IF tool.description = Undefined THEN ""
                         ELSE tool.description,
         parameters |-> IF tool.inputSchema = Undefined THEN DefaultSchema
                        ELSE tool.inputSchema]]

convertToOpenAIFormat ==
    [i \in 1..Len(availableTools) |-> OpenAITool(availableTools[i])]

-----------------------------------------------------------------------------
(* MCPClientWrapper.initialize / initializeMCP / disconnect.                *)

\* initialize() up to its first await; the already-initialized call returns
\* at once and initializeMCP hands back the client.
InitializeCall ==
    /\ initPc = "idle"
    /\ IF initialized
       THEN /\ initResult' = "client"
            /\ UNCHANGED <<client, transport, initPc>>
       ELSE /\ transport' = "set"
            /\ client' = "created"
            /\ initPc' = "connecting"
            /\ UNCHANGED initResult
    /\ UNCHANGED <<initialized, availableTools, discPc>>
    /\ UNCHANGED <<sideVars, apiKeySet, turnVars, resVars, envVars>>

\* Variant: initializeMCP lets the rejection of initialize() through.
InitFailedThrows ==
    /\ initPc' = "idle"
    /\ initResult' = "thrown"
    /\ UNCHANGED <<initialized, client, transport, availableTools, discPc>>

\* initialize() rejected: the catch rethrows, initializeMCP catches and
\* returns null.  No field is written on this path.
InitFailed ==
    /\ initPc' = "idle"
    /\ initResult' = "null"
    /\ UNCHANGED <<initialized, client, transport, availableTools, discPc>>

\* Promise.race([connect, timeout]) settles.
ConnectSettle ==
    /\ initPc = "connecting"
    /\ \E outcome \in {"ok", "error", "timeout"} :
          IF outcome = "ok" /\ client = "created"
          THEN \* line 77: this.client.listTools() is issued
               /\ client' = "connected"
               /\ initPc' = "listing"
               /\ UNCHANGED <<initialized, transport, availableTools,
                              initResult, discPc>>
          ELSE InitFailed
    /\ UNCHANGED <<sideVars, apiKeySet, turnVars, resVars, envVars>>

\* client.listTools() settles.
ListToolsSettleFrom(lists) ==
    /\ initPc = "listing"
    /\ \/ /\ client = "connected"
          /\ \E tools \in lists :
                /\ availableTools' = tools
                /\ initialized' = TRUE
                /\ initPc' = "idle"
                /\ initResult' = "client"
                /\ UNCHANGED <<client, transport, discPc>>
       \/ InitFailed
    /\ UNCHANGED <<sideVars, apiKeySet, turnVars, resVars, envVars>>

\* client.listTools() settles with a list of the deployment's tool server.
ListToolsSettle == ListToolsSettleFrom(ServerToolLists)

\* disconnect() up to await this.client.close(); with no client the whole
\* method runs at once.
DisconnectCall ==
    /\ discPc = "idle"
    /\ IF client # "null"
       THEN /\ client' = "closed"
            /\ discPc' = "closing"
            /\ UNCHANGED <<initialized, transport>>
       ELSE /\ initialized' = FALSE
            /\ transport' = "null"
            /\ UNCHANGED <<client, discPc>>
    /\ UNCHANGED <<availableTools, initPc, initResult>>
    /\ UNCHANGED <<sideVars, apiKeySet, turnVars, resVars, envVars>>

\* Variant: disconnect() also empties the cached tool list.
DisconnectFinishClearsCache ==
    /\ discPc = "closing"
    /\ initialized' = FALSE
    /\ client' = "null"
    /\ transport' = "null"
    /\ discPc' = "idle"
    /\ availableTools' = <<>>
    /\ UNCHANGED <<initPc, initResult>>
    /\ UNCHANGED <<sideVars, apiKeySet, turnVars, resVars, envVars>>

\* close() settled (resolved or rejected, both are swallowed).
DisconnectFinish ==
    /\ discPc = "closing"
    /\ initialized' = FALSE
    /\ client' = "null"
    /\ transport' = "null"
    /\ discPc' = "idle"
    /\ UNCHANGED <<availableTools, initPc, initResult>>
    /\ UNCHANGED <<sideVars, apiKeySet, turnVars, resVars, envVars>>

-----------------------------------------------------------------------------
(* Requests, messages and the model provider.                               *)

\* Largest number of tool-call requests in one model response.
MaxCalls == 2

NoError == "none"
NoBody  == [error |-> "none", message |-> "none"]

Msg(role, content) ==
    [role |-> role, content |-> content, tool_call_id |-> Undefined,
     tool_calls |-> <<>>]

\* req.body.prompt: absent, a non-array value, or an array of messages.
Histories ==
    { <<Msg("user", "hello")>>,
      <<Msg("user", "search for water quality datasets"),
        Msg("assistant", "Which region?"),
        Msg("user", "Europe")>> }

Prompts ==
    {[kind |-> "missing", items |-> <<>>], [kind |-> "string", items |-> <<>>]}
    \cup {[kind |-> "array", items |-> h] : h \in Histories}

\* Variant: only a missing prompt is rejected.
InvalidPromptOnlyMissing(p) == p.kind = "missing"

\* !prompt || !Array.isArray(prompt)
InvalidPrompt(p) == p.kind = "missing" \/ p.kind # "array"

ToolsSystemContent == "system: You MUST use these tools"
PlainSystemContent == "system: helpful assistant"

systemContent(enabled) ==
    IF enabled THEN ToolsSystemContent ELSE PlainSystemContent

\* Argument strings the model may put in a tool call.
ValidArgs     == "{\"query\":\"water quality\"}"
MalformedArgs == "{\"query\":\"water"
NullArgs      == "null"

UnknownToolName == "delete_everything"

\* What the model may ask for in one tool call.
CallKinds(names) ==
    {[name |-> n, arguments |-> a] :
        n \in {names[1]}, a \in {ValidArgs, MalformedArgs, NullArgs}}
    \cup {[name |-> UnknownToolName, arguments |-> ValidArgs]}

CallId(n) == "call_" \o ToString(n)

\* Lists of 1..MaxCalls requests; ids are opaque and do not follow the
\* order of the requests.
ToolCallLists(names) ==
    UNION { { [i \in 1..n |->
                 [id |-> CallId(n + 1 - i),
                  name |-> f[i].name, arguments |-> f[i].arguments]] :
              f \in [1..n -> CallKinds(names)] }
            : n \in 1..MaxCalls }

ProviderError == "Connection error."

\* Answers of the provider to the non-streaming call.  Tool calls are only
\* requested when tools were offered.
FirstResponses(offered) ==
    {[ok |-> FALSE, content |-> Undefined, tool_calls |-> <<>>],
     [ok |-> TRUE, content |-> "Hello, how can I help?", tool_calls |-> <<>>]}
    \cup IF offered = <<>> THEN {}
         ELSE {[ok |-> TRUE, content |-> Undefined, tool_calls |-> tc] :
                  tc \in ToolCallLists([i \in 1..Len(offered) |->
                                            offered[i].function.name])}

\* Streams of the provider: each frame carries a delta content or none.
ProviderStreams ==
    { <<Undefined>>,
      <<"Found ", "", "3 datasets">> }

\* Variant: the relay only skips frames without a delta content.
TruthyOnlyDefined(content) == content # Undefined

\* if (content)
Truthy(content) == content # Undefined /\ content # ""

-----------------------------------------------------------------------------
(* JSON.parse on the argument string of a tool call.                        *)

CharAt(s, i) == SubSeq(s, i, i)

QuoteCount(s) == Cardinality({i \in 1..Len(s) : CharAt(s, i) = "\""})

\* The text is a complete JSON value: null, or an object whose braces and
\* quotes are closed.
JSONParse(s) ==
    IF s = "null"
    THEN [ok |-> TRUE, isObject |-> FALSE, value |-> "null"]
    ELSE IF /\ Len(s) >= 2
            /\ CharAt(s, 1) = "{"
            /\ CharAt(s, Len(s)) = "}"
            /\ QuoteCount(s) % 2 = 0
         THEN [ok |-> TRUE, isObject |-> TRUE,
               value |-> SubSeq(s, 2, Len(s) - 1)]
         ELSE [ok |-> FALSE, isObject |-> FALSE, value |-> Undefined]

JSONParseError == "Unexpected end of JSON input"

-----------------------------------------------------------------------------
(* Tool server answers and MCPClientWrapper.callTool / formatToolResult.    *)

TextItem(t) == [type |-> "text", text |-> t]

Result(isError, hasContent, content) ==
    [throws |-> FALSE, message |-> Undefined, isError |-> isError,
     hasContent |-> hasContent, content |-> content]

Throws(m) ==
    [throws |-> TRUE, message |-> m, isError |-> FALSE,
     hasContent |-> FALSE, content |-> <<>>]

PayloadText == "Found 3 results..."

OkText        == Result(FALSE, TRUE, <<TextItem(PayloadText)>>)
OkNoContent   == Result(FALSE, TRUE, <<>>)
ErrText       == Result(TRUE, TRUE, <<TextItem("Unauthorized")>>)
ErrNoContent  == Result(TRUE, FALSE, <<>>)
TransportFail == Throws("fetch failed")
ProtocolFail  == Throws("MCP error -32602: Invalid arguments")
UnknownThrow  == Throws("MCP error -32602: Tool not found")
UnknownResult == Result(TRUE, TRUE, <<TextItem("Unknown tool")>>)

OkAbsent     == Result(FALSE, FALSE, <<>>)
OkImage      == Result(FALSE, TRUE, <<[type |-> "image", text |-> Undefined]>>)
OkTextless   == Result(FALSE, TRUE, <<[type |-> "text", text |-> Undefined]>>)
OkEmptyText  == Result(FALSE, TRUE, <<TextItem("")>>)
ErrEmptyText == Result(TRUE, TRUE, <<TextItem("")>>)
ThrowsNoMessage    == Throws(Undefined)
ThrowsEmptyMessage == Throws("")

\* Every shape of answer client.callTool may settle with, whatever the tool.
InvokerResponses ==
    {OkText, OkNoContent, OkAbsent, OkImage, OkTextless, OkEmptyText,
     ErrText, ErrNoContent, ErrEmptyText,
     TransportFail, ThrowsNoMessage, ThrowsEmptyMessage}

\* How client.callTool may settle for a call of the advertised tool list.
ServerResponses(name, args) ==
    IF ~args.isObject THEN {ProtocolFail}
    ELSE IF name = UnknownToolName THEN {UnknownThrow}
    ELSE {OkText, ErrText, TransportFail}

\* The answers that report a failure of the invocation.
ServerFailed(r) == r.throws \/ r.isError

\* Variant: the content of the tool server's answer is not looked at.
ContentOfDropped(result) == <<>>

\* result.content || []
ContentOf(result) == IF result.hasContent THEN result.content ELSE <<>>

\* Variant: a result without usable text is formatted as the empty text.
formatToolResultEmpty(result) ==
    LET content == ContentOf(result) IN
    IF result.isError
    THEN IF Len(content) > 0 /\ Truthy(content[1].text)
         THEN "Error: " \o content[1].text
         ELSE "Error: Tool execution failed"
    ELSE IF /\ Len(content) > 0
            /\ content[1].type = "text"
            /\ Truthy(content[1].text)
         THEN content[1].text
         ELSE ""

formatToolResult(result) ==
    LET content == ContentOf(result) IN
    IF result.isError
    THEN IF Len(content) > 0 /\ Truthy(content[1].text)
         THEN "Error: " \o content[1].text
         ELSE "Error: Tool execution failed"
    ELSE IF /\ Len(content) > 0
            /\ content[1].type = "text"
            /\ Truthy(content[1].text)
         THEN content[1].text
         ELSE "No result"

NotInitializedError == "MCP client not initialized"

\* The guard of callTool: it throws unless initialized with a client.
callToolGuard == initialized /\ client # "null"

\* Variant: callTool without its try/catch, a thrown failure propagates.
callToolSettleNoCatch(toolName, response) ==
    IF response.throws
    THEN [raised |-> TRUE, text |-> response.message]
    ELSE [raised |-> FALSE, text |-> formatToolResult(response)]

\* callTool once client.callTool has settled: the try/catch turns a thrown
\* failure into a text.
callToolSettle(toolName, response) ==
    IF response.throws
    THEN [raised |-> FALSE,
          text |-> "Error calling tool " \o toolName \o ": "
                   \o response.message]
    ELSE [raised |-> FALSE, text |-> formatToolResult(response)]

\* callTool as a whole, for a call that settles with the given response.
callTool(toolName, response) ==
    IF ~callToolGuard
    THEN [raised |-> TRUE, text |-> NotInitializedError]
    ELSE callToolSettle(toolName, response)

-----------------------------------------------------------------------------
(* router.post('/'): one chat turn.                                         *)

\* Variant: the tool message is pushed without the id of its request.
ToolMsgUncorrelated(id, text) ==
    [role |-> "tool", content |-> text, tool_call_id |-> Undefined,
     tool_calls |-> <<>>]

ToolMsg(id, text) ==
    [role |-> "tool", content |-> text, tool_call_id |-> id,
     tool_calls |-> <<>>]

\* Variant: the assistant message is pushed without its tool-call requests.
AssistantMsgWithoutCalls(r) ==
    [role |-> "assistant", content |-> r.content,
     tool_call_id |-> Undefined, tool_calls |-> <<>>]

\* messages.push(message): the message of the first response.
AssistantMsg(r) ==
    [role |-> "assistant", content |-> r.content,
     tool_call_id |-> Undefined, tool_calls |-> r.tool_calls]

\* Variant: every create call offers the tools the registry holds.
ApiParamsOffersTools(msgs, streaming, tools) ==
    [model |-> "gpt-4o", messages |-> msgs, stream |-> streaming,
     hasTools |-> convertToOpenAIFormat # <<>>,
     tools |-> convertToOpenAIFormat,
     tool_choice |-> IF convertToOpenAIFormat # <<>> THEN "auto"
                     ELSE Undefined]

\* Variant: tool_choice is set outside the check for a non-empty tool list.
ApiParamsAlwaysAuto(msgs, streaming, tools) ==
    [model |-> "gpt-4o", messages |-> msgs, stream |-> streaming,
     hasTools |-> tools # <<>>, tools |-> tools, tool_choice |-> "auto"]

\* Parameters of a create-completion call.
ApiParams(msgs, streaming, tools) ==
    [model |-> "gpt-4o", messages |-> msgs, stream |-> streaming,
     hasTools |-> tools # <<>>, tools |-> tools,
     tool_choice |-> IF tools # <<>> THEN "auto" ELSE Undefined]

\* Variant: the catch block always writes the error into the stream.
CatchAlwaysChunk(msg) ==
    /\ caught' = msg
    /\ pc' = "done"
    /\ ended' = TRUE
    /\ endCount' = endCount + 1
    /\ chunks' = Append(chunks, "Error: " \o msg)
    /\ headersSent' = TRUE
    /\ status' = 200
    /\ UNCHANGED body

\* Variant: the catch block writes the error chunk into an open stream but
\* does not end the response.
CatchForgetsEnd(msg) ==
    /\ caught' = msg
    /\ pc' = "done"
    /\ IF ~headersSent
       THEN /\ status' = 500
            /\ body' = [error |-> "Internal server error", message |-> msg]
            /\ headersSent' = TRUE
            /\ ended' = TRUE
            /\ endCount' = endCount + 1
            /\ UNCHANGED chunks
       ELSE /\ chunks' = Append(chunks, "Error: " \o msg)
            /\ UNCHANGED <<status, body, headersSent, ended, endCount>>

\* Variant: the catch block always answers with the JSON error.
CatchAlwaysJson(msg) ==
    /\ caught' = msg
    /\ pc' = "done"
    /\ ended' = TRUE
    /\ endCount' = endCount + 1
    /\ status' = 500
    /\ body' = [error |-> "Internal server error", message |-> msg]
    /\ headersSent' = TRUE
    /\ UNCHANGED chunks

\* The catch block: a structured 500 while no header has gone out, else one
\* error chunk and the end of the stream.
Catch(msg) ==
    /\ caught' = msg
    /\ pc' = "done"
    /\ ended' = TRUE
    /\ endCount' = endCount + 1
    /\ IF ~headersSent
       THEN /\ status' = 500
            /\ body' = [error |-> "Internal server error", message |-> msg]
            /\ headersSent' = TRUE
            /\ UNCHANGED chunks
       ELSE /\ chunks' = Append(chunks, "Error: " \o msg)
            /\ UNCHANGED <<status, body, headersSent>>

\* Variant: the requests are taken from the end of the list.
NextCallReversed(calls, idx) == calls[Len(calls) + 1 - idx]

\* for (const toolCall of message.tool_calls): the request of iteration idx.
NextCall(calls, idx) == calls[idx]

\* The tool loop from iteration idx on, with msgs the message list and log
\* the tool-server log so far: parse the arguments and start the call, or
\* leave the loop and issue the streaming call.
ContinueLoop(msgs, calls, idx, log) ==
    /\ messages' = msgs
    /\ IF idx > Len(calls)
       THEN /\ modelCalls' = Append(modelCalls, ApiParams(msgs, TRUE, <<>>))
            /\ pc' = "second"
            /\ toolLog' = log
            /\ UNCHANGED <<k, caught, resVars>>
       ELSE LET toolCall == NextCall(calls, idx)
                functionArgs == JSONParse(toolCall.arguments)
            IN
            IF ~functionArgs.ok
            THEN /\ Catch(JSONParseError)
                 /\ toolLog' = log
                 /\ UNCHANGED <<k, modelCalls>>
            ELSE IF ~callToolGuard
            THEN /\ Catch(NotInitializedError)
                 /\ toolLog' = log
                 /\ UNCHANGED <<k, modelCalls>>
            ELSE /\ toolLog' = Append(log,
                        [id |-> toolCall.id, name |-> toolCall.name,
                         arguments |-> functionArgs, settled |-> FALSE,
                         response |-> OkNoContent])
                 /\ k' = idx
                 /\ pc' = "invoking"
                 /\ UNCHANGED <<caught, modelCalls, resVars>>

\* Variant: messages is kept from one request to the next.
InitialMessagesKept(enabled, p) ==
    messages \o <<Msg("system", systemContent(enabled))>> \o p.items

\* let messages = [systemMessage, ...prompt]
InitialMessages(enabled, p) ==
    <<Msg("system", systemContent(enabled))>> \o p.items

\* A request arrives: validation, composition and the first dispatch.
ReceiveRequest ==
    /\ pc \in {"idle", "done"}
    /\ \E p \in Prompts :
        /\ prompt' = p
        /\ firstContent' = Undefined
        /\ toolCalls' = <<>>
        /\ k' = 0
        /\ stream' = <<>>
        /\ pos' = 0
        /\ streamFails' = FALSE
        /\ toolLog' = <<>>
        /\ IF InvalidPrompt(p)
           THEN /\ status' = 400
                /\ body' = [error |-> "Invalid request", message |-> "none"]
                /\ headersSent' = TRUE
                /\ ended' = TRUE
                /\ endCount' = 1
                /\ chunks' = <<>>
                /\ pc' = "done"
                /\ caught' = NoError
                /\ messages' = <<>>
                /\ modelCalls' = <<>>
                /\ UNCHANGED mcpEnabled
           ELSE LET enabled == isInitialized
                    msgs == InitialMessages(enabled, p)
                    mcpTools == IF enabled THEN convertToOpenAIFormat
                                ELSE <<>>
                IN  /\ mcpEnabled' = enabled
                    /\ messages' = msgs
                    /\ chunks' = <<>>
                    /\ IF ~apiKeySet
                       THEN \* getOpenAI() throws
                            /\ caught' = "OPENAI_API_KEY is not set"
                            /\ status' = 500
                            /\ body' = [error |-> "Internal server error",
                                        message |-> "OPENAI_API_KEY is not set"]
                            /\ headersSent' = TRUE
                            /\ ended' = TRUE
                            /\ endCount' = 1
                            /\ pc' = "done"
                            /\ modelCalls' = <<>>
                       ELSE /\ modelCalls' = <<ApiParams(msgs, FALSE, mcpTools)>>
                            /\ pc' = "first"
                            /\ caught' = NoError
                            /\ status' = 0
                            /\ body' = NoBody
                            /\ headersSent' = FALSE
                            /\ ended' = FALSE
                            /\ endCount' = 0
    /\ UNCHANGED <<regVars, sideVars, apiKeySet>>

\* The non-streaming call settles.
FirstResponse ==
    /\ pc = "first"
    /\ \E r \in FirstResponses(modelCalls[1].tools) :
        /\ firstContent' = r.content
        /\ IF ~r.ok
           THEN /\ Catch(ProviderError)
                /\ UNCHANGED <<messages, toolCalls, k, modelCalls, toolLog>>
           ELSE IF Len(r.tool_calls) > 0
           THEN /\ toolCalls' = r.tool_calls
                /\ ContinueLoop(Append(messages, AssistantMsg(r)),
                                r.tool_calls, 1, toolLog)
           ELSE /\ modelCalls' = Append(modelCalls,
                                        ApiParams(messages, TRUE, <<>>))
                /\ pc' = "second"
                /\ UNCHANGED <<messages, toolCalls, k, caught, toolLog,
                               resVars>>
    /\ UNCHANGED <<regVars, sideVars, apiKeySet, prompt, mcpEnabled, stream,
                   pos, streamFails>>

\* Variant: a request whose call failed is sent again.
NextIndexRetry(idx, response) ==
    IF ServerFailed(response) THEN idx ELSE idx + 1

\* for (const toolCall of responseMessage.tool_calls): the loop moves on to
\* the next request whatever the call returned.
NextIndex(idx, response) == idx + 1

\* client.callTool settles for tool call k: the result is pushed as a tool
\* message and the loop goes on.
ToolReturnFrom(responses) ==
    /\ pc = "invoking"
    /\ \E response \in responses :
        LET toolCall == NextCall(toolCalls, k)
            toolResult == callToolSettle(toolCall.name, response)
            logged == [toolLog EXCEPT ![Len(toolLog)].settled = TRUE,
                                      ![Len(toolLog)].response = response]
        IN  IF toolResult.raised
            THEN /\ Catch(toolResult.text)
                 /\ toolLog' = logged
                 /\ UNCHANGED <<messages, k, modelCalls>>
            ELSE ContinueLoop(
                    Append(messages,
                           ToolMsg(toolCall.id, toolResult.text)),
                    toolCalls, NextIndex(k, response), logged)
    /\ UNCHANGED <<regVars, sideVars, apiKeySet, prompt, mcpEnabled,
                   firstContent, toolCalls, stream, pos, streamFails>>

\* The tool call settles as the tool server of the deployment answers.
ToolReturn ==
    ToolReturnFrom(ServerResponses(NextCall(toolCalls, k).name,
                                   toolLog[Len(toolLog)].arguments))

\* The streaming call settles: a stream is opened, or the call is rejected.
SecondResponse ==
    /\ pc = "second"
    /\ \/ \E s \in ProviderStreams, f \in BOOLEAN :
             /\ stream' = s
             /\ streamFails' = f
             /\ pc' = "streaming"
             /\ UNCHANGED <<caught, resVars>>
       \/ /\ Catch(ProviderError)
          /\ UNCHANGED <<stream, streamFails>>
    /\ UNCHANGED pos
    /\ UNCHANGED <<regVars, sideVars, apiKeySet, prompt, mcpEnabled,
                   firstContent, messages, toolCalls, k, modelCalls, toolLog>>

\* Variant: the chunk is put in front of what was written before.
resWritePrepend(written, content) == <<content>> \o written

\* res.write of one data line, appended to what the client has been sent.
resWrite(written, content) == Append(written, content)

\* One iteration of for await (const chunk of streamResponse).
StreamFrame ==
    /\ pc = "streaming"
    /\ pos < Len(stream)
    /\ LET content == stream[pos + 1] IN
       IF Truthy(content)
       THEN /\ chunks' = resWrite(chunks, content)
            /\ headersSent' = TRUE
            /\ status' = 200
       ELSE UNCHANGED <<chunks, headersSent, status>>
    /\ pos' = pos + 1
    /\ UNCHANGED <<body, ended, endCount>>
    /\ UNCHANGED <<regVars, sideVars, apiKeySet, turnVars, modelCalls, stream,
                   streamFails, toolLog>>

\* The provider stream is exhausted: res.end().
StreamEnd ==
    /\ pc = "streaming"
    /\ pos = Len(stream)
    /\ ~streamFails
    /\ headersSent' = TRUE
    /\ status' = 200
    /\ ended' = TRUE
    /\ endCount' = endCount + 1
    /\ pc' = "done"
    /\ UNCHANGED <<body, chunks>>
    /\ UNCHANGED <<regVars, sideVars, apiKeySet, prompt, mcpEnabled,
                   firstContent, messages, toolCalls, k, caught, envVars>>

\* The provider stream raises while it is being read.
StreamError ==
    /\ pc = "streaming"
    /\ pos = Len(stream)
    /\ streamFails
    /\ Catch(ProviderError)
    /\ UNCHANGED <<regVars, sideVars, apiKeySet, prompt, mcpEnabled,
                   firstContent, messages, toolCalls, k, envVars>>

-----------------------------------------------------------------------------
(* routes/sdi.ts: /api/sdi/connect, /disconnect and /status of one session. *)

\* Largest number of requests answered in one run of the session.
MaxSdiOps == 4

JSTrue  == "true"
JSFalse == "false"

DefaultSdiServer == "https://galliwasp.eea.europa.eu/catalogue"

\* sdi_user_info: not set, {} or the data of /srv/api/me.
UserInfoUndefined ==
    [kind |-> Undefined, name |-> Undefined, surname |-> Undefined]
UserInfoEmpty ==
    [kind |-> "object", name |-> Undefined, surname |-> Undefined]
UserInfoAlice ==
    [kind |-> "object", name |-> "Alice", surname |-> "Smith"]

\* The session of a client that has made no /api/sdi request yet.
EmptySession ==
    [sdi_connected |-> Undefined, sdi_server |-> Undefined,
     sdi_username |-> Undefined, sdi_jsessionid |-> Undefined,
     sdi_gnsessionid |-> Undefined, sdi_user_info |-> UserInfoUndefined]

\* Variant: /connect also keeps the password in the session.
ConnectedSessionWithPassword(p, userInfo) ==
    [sdi_connected |-> JSTrue, sdi_server |-> p.sdiServer,
     sdi_username |-> p.username, sdi_jsessionid |-> p.jsSessionId,
     sdi_gnsessionid |-> p.gnSessionId, sdi_user_info |-> userInfo,
     sdi_password |-> p.password]

\* /connect: Store session data.
ConnectedSession(p, userInfo) ==
    [sdi_connected |-> JSTrue, sdi_server |-> p.sdiServer,
     sdi_username |-> p.username, sdi_jsessionid |-> p.jsSessionId,
     sdi_gnsessionid |-> p.gnSessionId, sdi_user_info |-> userInfo]

\* Variant: /disconnect clears the data and leaves the connected flag.
ClearedSessionKeepsFlag ==
    [sdi_connected |-> JSTrue, sdi_server |-> Undefined,
     sdi_username |-> Undefined, sdi_jsessionid |-> Undefined,
     sdi_gnsessionid |-> Undefined, sdi_user_info |-> UserInfoUndefined]

\* /disconnect: the six assignments.
ClearedSession ==
    [sdi_connected |-> JSFalse, sdi_server |-> Undefined,
     sdi_username |-> Undefined, sdi_jsessionid |-> Undefined,
     sdi_gnsessionid |-> Undefined, sdi_user_info |-> UserInfoUndefined]

\* req.body of /connect: each field given or not.
SdiPassword == "s3cret"

ConnectBodies ==
    [server : {Undefined, "https://sdi.example.org/catalogue"},
     username : {Undefined, "alice"},
     password : {Undefined, SdiPassword}]

NoPending ==
    [stage |-> "none", sdiServer |-> Undefined, username |-> Undefined,
     password |-> Undefined, gnSessionId |-> Undefined,
     jsSessionId |-> Undefined]

NoReply ==
    [connected |-> FALSE, server |-> Undefined,
     user |-> [name |-> Undefined, surname |-> Undefined,
               username |-> Undefined]]

\* value || ''
OrEmpty(value) == IF Truthy(value) THEN value ELSE ""

SdiIdle ==
    /\ session = EmptySession
    /\ sdiPending = NoPending
    /\ sdiLog = <<>>
    /\ statusReply = NoReply

SdiAnswered(what) == sdiLog' = Append(sdiLog, what)

\* Variant: a /connect that fails drops the connection of the session.
FailedConnectSessionCleared(sess) == ClearedSession

\* /connect answering 400, 401 or 500: return res.status(...).json(...)
\* without an assignment to req.session.
FailedConnectSession(sess) == sess

\* Variant: the tokens are not looked at before the session is stored.
ObtainedTokenUnchecked(gnSessionId, jsSessionId) == TRUE

\* The negation of !gnSessionId && !jsSessionId
ObtainedToken(gnSessionId, jsSessionId) ==
    Truthy(gnSessionId) \/ Truthy(jsSessionId)

\* POST /connect up to the sign-in request; 400 without credentials.
SdiConnect ==
    /\ sdiPending.stage = "none"
    /\ Len(sdiLog) < MaxSdiOps
    /\ \E b \in ConnectBodies :
          IF ~Truthy(b.username) \/ ~Truthy(b.password)
          THEN /\ SdiAnswered("connect failed")
               /\ session' = FailedConnectSession(session)
               /\ UNCHANGED sdiPending
          ELSE /\ sdiPending' =
                     [stage |-> "signin",
                      sdiServer |-> IF Truthy(b.server) THEN b.server
                                    ELSE DefaultSdiServer,
                      username |-> b.username, password |-> b.password,
                      gnSessionId |-> Undefined, jsSessionId |-> Undefined]
               /\ UNCHANGED <<sdiLog, session>>
    /\ UNCHANGED statusReply
    /\ UNCHANGED <<regVars, apiKeySet, turnVars, resVars, envVars, cliVars,
                   conVars, extVars>>

\* The sign-in request settles: it throws (500), answers another status
\* than 200 (401), or answers 200 without a GNSESSIONID cookie, with one of
\* empty value or with one that carries a token.
SdiSignin ==
    /\ sdiPending.stage = "signin"
    /\ \E outcome \in {"throws", "not 200", "ok"},
          cookie \in {Undefined, "", "gn-5f2a"} :
          IF outcome = "ok"
          THEN /\ sdiPending' = [sdiPending EXCEPT !.stage = "site",
                                                   !.gnSessionId = cookie]
               /\ UNCHANGED <<sdiLog, session>>
          ELSE /\ sdiPending' = NoPending
               /\ SdiAnswered("connect failed")
               /\ session' = FailedConnectSession(session)
    /\ UNCHANGED statusReply
    /\ UNCHANGED <<regVars, apiKeySet, turnVars, resVars, envVars, cliVars,
                   conVars, extVars>>

\* The site-info request settles: it throws (500) or answers with or
\* without a JSESSIONID cookie; 500 when neither token was obtained.
SdiSiteInfo ==
    /\ sdiPending.stage = "site"
    /\ \E outcome \in {"throws", "ok"},
          cookie \in {Undefined, "", "js-91c7"} :
          IF outcome = "ok" /\ ObtainedToken(sdiPending.gnSessionId, cookie)
          THEN /\ sdiPending' = [sdiPending EXCEPT !.stage = "me",
                                                   !.jsSessionId = cookie]
               /\ UNCHANGED <<sdiLog, session>>
          ELSE /\ sdiPending' = NoPending
               /\ SdiAnswered("connect failed")
               /\ session' = FailedConnectSession(session)
    /\ UNCHANGED statusReply
    /\ UNCHANGED <<regVars, apiKeySet, turnVars, resVars, envVars, cliVars,
                   conVars, extVars>>

\* The user-info request settles, with data or with a failure that is
\* ignored; the session data are stored and 200 is answered.
SdiMe ==
    /\ sdiPending.stage = "me"
    /\ \E userInfo \in {UserInfoEmpty, UserInfoAlice} :
          session' = ConnectedSession(sdiPending, userInfo)
    /\ sdiPending' = NoPending
    /\ SdiAnswered("connected")
    /\ UNCHANGED statusReply
    /\ UNCHANGED <<regVars, apiKeySet, turnVars, resVars, envVars, cliVars,
                   conVars, extVars>>

\* POST /disconnect
SdiDisconnect ==
    /\ Len(sdiLog) < MaxSdiOps
    /\ session' = ClearedSession
    /\ SdiAnswered("disconnect")
    /\ UNCHANGED <<sdiPending, statusReply>>
    /\ UNCHANGED <<regVars, apiKeySet, turnVars, resVars, envVars, cliVars,
                   conVars, extVars>>

\* GET /status
SdiStatus ==
    /\ Len(sdiLog) < MaxSdiOps
    /\ statusReply' =
          IF session.sdi_connected = JSTrue
          THEN [connected |-> TRUE, server |-> session.sdi_server,
                user |-> [name |-> OrEmpty(session.sdi_user_info.name),
                          surname |-> OrEmpty(session.sdi_user_info.surname),
                          username |-> OrEmpty(session.sdi_username)]]
          ELSE NoReply
    /\ SdiAnswered("status")
    /\ UNCHANGED <<session, sdiPending>>
    /\ UNCHANGED <<regVars, apiKeySet, turnVars, resVars, envVars, cliVars,
                   conVars, extVars>>

SdiNext ==
    \/ SdiConnect
    \/ SdiSignin
    \/ SdiSiteInfo
    \/ SdiMe
    \/ SdiDisconnect
    \/ SdiStatus

-----------------------------------------------------------------------------
(* MCPClientWrapper.initialize run by two callers at the same time.  The    *)
(* method is public on the singleton of getMCPClient and looks at           *)
(* this.initialized only; a call that is in flight sets no field a second   *)
(* caller could see.                                                        *)

\* Largest number of Client objects created in one run.
MaxClients == 3

Callers == {"X", "Y"}

IdleCaller == [pc |-> "idle", own |-> 0, listOn |-> 0]

OvIdle ==
    /\ ovCalls = [c \in Callers |-> IdleCaller]
    /\ handles = <<>>
    /\ clientId = 0
    /\ cachedOn = 0

OnlyRegistryChanges ==
    UNCHANGED <<initPc, initResult, discPc, apiKeySet, turnVars, resVars,
                envVars, cliVars, sdiVars, conVars, svcVars, uiVars>>

\* The negation of if (this.initialized) return
NeedsConnection == ~initialized

\* Caller c enters initialize() and runs to its first await: it returns at
\* once when the registry is ready, else it creates a transport and a
\* Client, stores both on the wrapper and starts to connect.
OvInitialize(c) ==
    /\ ovCalls[c].pc \in {"idle", "returned", "thrown"}
    /\ IF ~NeedsConnection
       THEN /\ ovCalls' = [ovCalls EXCEPT ![c].pc = "returned"]
            /\ UNCHANGED <<client, transport, handles, clientId>>
       ELSE /\ Len(handles) < MaxClients
            /\ handles' = Append(handles, "connecting")
            /\ clientId' = Len(handles) + 1
            /\ client' = "created"
            /\ transport' = "set"
            /\ ovCalls' = [ovCalls EXCEPT
                             ![c] = [pc |-> "connecting",
                                     own |-> Len(handles) + 1,
                                     listOn |-> 0]]
    /\ UNCHANGED <<initialized, availableTools, cachedOn>>
    /\ OnlyRegistryChanges

\* Promise.race([connect, timeout]) of caller c settles.  On success the
\* caller goes on to this.client.listTools(), that is on the Client the
\* wrapper refers to by now.  The losing connect of a timeout is not closed.
OvConnectSettle(c) ==
    /\ ovCalls[c].pc = "connecting"
    /\ \E outcome \in {"ok", "error", "timeout"} :
          LET own == ovCalls[c].own IN
          IF outcome = "ok"
          THEN /\ handles' = [handles EXCEPT ![own] = "connected"]
               /\ client' = IF clientId = own THEN "connected" ELSE client
               /\ ovCalls' = [ovCalls EXCEPT ![c].pc = "listing",
                                             ![c].listOn = clientId]
          ELSE /\ handles' = IF outcome = "error"
                             THEN [handles EXCEPT ![own] = "failed"]
                             ELSE handles
               /\ ovCalls' = [ovCalls EXCEPT ![c].pc = "thrown"]
               /\ UNCHANGED client
    /\ UNCHANGED <<initialized, transport, availableTools, clientId,
                   cachedOn>>
    /\ OnlyRegistryChanges

\* listTools() of caller c settles.  A Client that failed to connect
\* rejects; one that is connected or still connecting answers or rejects.
OvListSettle(c) ==
    /\ ovCalls[c].pc = "listing"
    /\ \/ /\ handles[ovCalls[c].listOn] # "failed"
          /\ \E tools \in ServerToolLists :
                /\ availableTools' = tools
                /\ initialized' = TRUE
                /\ cachedOn' = ovCalls[c].listOn
                /\ ovCalls' = [ovCalls EXCEPT ![c].pc = "returned"]
       \/ /\ ovCalls' = [ovCalls EXCEPT ![c].pc = "thrown"]
          /\ UNCHANGED <<availableTools, initialized, cachedOn>>
    /\ UNCHANGED <<client, transport, handles, clientId>>
    /\ OnlyRegistryChanges

OverlapNext ==
    \E c \in Callers :
        \/ OvInitialize(c)
        \/ OvConnectSettle(c)
        \/ OvListSettle(c)

-----------------------------------------------------------------------------
(* services/mcpService.ts: MCPService of the browser, one initialize() at   *)
(* a time, with the events of its EventSource, the connection timers and    *)
(* disconnect().                                                            *)

\* Largest number of EventSource objects created in one run.
MaxSources == 2

SvcIdle ==
    /\ svcInitialized = FALSE
    /\ sseConnected = FALSE
    /\ eventSource = 0
    /\ svcAvailableTools = <<>>
    /\ svcPc = "idle"
    /\ sources = 0
    /\ timers = {}

OnlyServiceChanges ==
    UNCHANGED <<regVars, apiKeySet, turnVars, resVars, envVars, cliVars,
                sdiVars, conVars, ovVars, uiVars>>

\* The promise of connectSSE that is pending belongs to the EventSource
\* created last; resolve and reject of an earlier promise do nothing.
Settles(n) == svcPc = "opening" /\ n = sources

\* initialize() up to its first await: return when initialized; in
\* connectSSE return when the connection stands, else check the health.
SvcInitialize ==
    /\ svcPc = "idle"
    /\ ~svcInitialized
    /\ IF sseConnected /\ eventSource # 0
       THEN svcPc' = "listing"
       ELSE /\ sources < MaxSources
            /\ svcPc' = "health"
    /\ UNCHANGED <<svcInitialized, sseConnected, eventSource,
                   svcAvailableTools, sources, timers>>
    /\ OnlyServiceChanges

\* checkHealth() settles; on success the EventSource is created, its
\* handlers are set and the connection timer is started.
SvcHealthSettle ==
    /\ svcPc = "health"
    /\ \/ /\ eventSource' = sources + 1
          /\ sources' = sources + 1
          /\ timers' = timers \cup {sources + 1}
          /\ svcPc' = "opening"
       \/ /\ svcPc' = "idle"
          /\ UNCHANGED <<eventSource, sources, timers>>
    /\ UNCHANGED <<svcInitialized, sseConnected, svcAvailableTools>>
    /\ OnlyServiceChanges

\* eventSource.onopen; initialize() goes on to the tools/list request.
SseOpen ==
    /\ eventSource # 0
    /\ ~sseConnected
    /\ sseConnected' = TRUE
    /\ svcPc' = IF Settles(eventSource) THEN "listing" ELSE svcPc
    /\ UNCHANGED <<svcInitialized, eventSource, svcAvailableTools, sources,
                   timers>>
    /\ OnlyServiceChanges

\* eventSource.onerror, while connecting or on an open connection.  The
\* handler assigns sseConnected and eventSource and nothing else.
SseError ==
    /\ eventSource # 0
    /\ sseConnected' = FALSE
    /\ eventSource' = 0
    /\ svcPc' = IF Settles(eventSource) THEN "idle" ELSE svcPc
    /\ UNCHANGED <<svcInitialized, svcAvailableTools, sources, timers>>
    /\ OnlyServiceChanges

\* The 10 s timer of connection n fires.
SseTimeout ==
    \E n \in timers :
        /\ timers' = timers \ {n}
        /\ IF ~sseConnected
           THEN /\ eventSource' = 0
                /\ svcPc' = IF Settles(n) THEN "idle" ELSE svcPc
           ELSE UNCHANGED <<eventSource, svcPc>>
        /\ UNCHANGED <<svcInitialized, sseConnected, svcAvailableTools,
                       sources>>
        /\ OnlyServiceChanges

\* sendMCPRequest('tools/list') settles: a result with a tools array
\* (an empty array is truthy), a result without tools, or a rejection.
SvcListSettle ==
    /\ svcPc = "listing"
    /\ \/ \E tools \in ServerToolLists :
             /\ svcAvailableTools' = tools
             /\ svcInitialized' = TRUE
       \/ UNCHANGED <<svcAvailableTools, svcInitialized>>
    /\ svcPc' = "idle"
    /\ UNCHANGED <<sseConnected, eventSource, sources, timers>>
    /\ OnlyServiceChanges

\* disconnect()
SvcDisconnect ==
    /\ eventSource # 0
    /\ eventSource' = 0
    /\ sseConnected' = FALSE
    /\ svcInitialized' = FALSE
    /\ UNCHANGED <<svcAvailableTools, svcPc, sources, timers>>
    /\ OnlyServiceChanges

ServiceNext ==
    \/ SvcInitialize
    \/ SvcHealthSettle
    \/ SseOpen
    \/ SseError
    \/ SseTimeout
    \/ SvcListSettle
    \/ SvcDisconnect

-----------------------------------------------------------------------------
(* modules/chatbotModule.tsx: handleNewPrompt of the chat window.  The send *)
(* button is disabled on an empty input only, so a prompt can be submitted  *)
(* while the answer to the one before is streamed.                          *)

Submits == {"A", "B"}

\* The text typed for a prompt and the chunks the backend streams for it.
UiInput(c) == "question " \o c
UiStream(c) == <<c \o "1", c \o "2">>

UiMsg(role, content) == [role |-> role, content |-> content]

IdleSubmit == [pc |-> "idle", assistantContent |-> "", read |-> 0]

UiIdle ==
    /\ chatGptMessages = <<>>
    /\ uiCalls = [c \in Submits |-> IdleSubmit]

OnlyWindowChanges ==
    UNCHANGED <<regVars, apiKeySet, turnVars, resVars, envVars, cliVars,
                sdiVars, conVars, ovVars, svcVars>>

\* handleNewPrompt up to await fetch: the user message is added.
UiSubmit(c) ==
    /\ uiCalls[c].pc = "idle"
    /\ chatGptMessages' =
          Append(chatGptMessages, UiMsg("user", UiInput(c)))
    /\ uiCalls' = [uiCalls EXCEPT ![c].pc = "fetching"]
    /\ OnlyWindowChanges

\* fetch settles: a response with a body, or one that is not ok.
UiFetchSettle(c) ==
    /\ uiCalls[c].pc = "fetching"
    /\ \E ok \in BOOLEAN :
          uiCalls' = [uiCalls EXCEPT
                        ![c].pc = IF ok THEN "reading" ELSE "done"]
    /\ UNCHANGED chatGptMessages
    /\ OnlyWindowChanges

\* The updater given to setChatGptMessages: overwrite the last message if
\* it is of the assistant, else push one.
ShowProgress(prev, assistantContent) ==
    IF Len(prev) > 0 /\ prev[Len(prev)].role = "assistant"
    THEN [prev EXCEPT ![Len(prev)].content = assistantContent]
    ELSE Append(prev, UiMsg("assistant", assistantContent))

\* One data line of the stream of prompt c is read and shown.
UiChunk(c) ==
    /\ uiCalls[c].pc = "reading"
    /\ uiCalls[c].read < Len(UiStream(c))
    /\ LET assistantContent ==
               uiCalls[c].assistantContent \o UiStream(c)[uiCalls[c].read + 1]
       IN  /\ uiCalls' = [uiCalls EXCEPT
                            ![c].assistantContent = assistantContent,
                            ![c].read = @ + 1]
           /\ chatGptMessages' = ShowProgress(chatGptMessages, assistantContent)
    /\ OnlyWindowChanges

\* reader.read() answers done.
UiDone(c) ==
    /\ uiCalls[c].pc = "reading"
    /\ uiCalls[c].read = Len(UiStream(c))
    /\ uiCalls' = [uiCalls EXCEPT ![c].pc = "done"]
    /\ UNCHANGED chatGptMessages
    /\ OnlyWindowChanges

WindowNext ==
    \E c \in Submits :
        \/ UiSubmit(c)
        \/ UiFetchSettle(c)
        \/ UiChunk(c)
        \/ UiDone(c)

ExtIdle == OvIdle /\ SvcIdle /\ UiIdle

-----------------------------------------------------------------------------
(* Two chat turns at the same time.  Every invocation of the handler has    *)
(* its own locals and its own response; the invocations share the registry, *)
(* the tool server and the model provider.  What each collaborator answers  *)
(* names the turn and the call it answers.                                  *)

Turns == {"A", "B"}

\* req.body.prompt of the request of turn t.
TurnHistory(t) == <<Msg("user", "question of " \o t)>>

\* The tool-call requests the model may answer to the first call of turn t.
TurnToolCalls(t) ==
    { <<[id |-> "call_" \o t \o "1", name |-> SearchTool.name,
         arguments |-> ValidArgs]>>,
      <<[id |-> "call_" \o t \o "1", name |-> SearchTool.name,
         arguments |-> ValidArgs],
        [id |-> "call_" \o t \o "2", name |-> RecordTool.name,
         arguments |-> ValidArgs]>> }

\* The tool server's successful answer to the request with the given id.
ToolAnswer(id) == Result(FALSE, TRUE, <<TextItem("records for " \o id)>>)

\* The provider's stream for the streaming call of turn t.
TurnStream(t) == <<"Answer ", Undefined, "for " \o t>>

IdleTurn ==
    [pc |-> "idle", toolCalls |-> <<>>, k |-> 0, calls |-> <<>>,
     stream |-> <<>>, pos |-> 0, chunks |-> <<>>]

ConcIdle ==
    /\ turns = [t \in Turns |-> IdleTurn]
    /\ msgsOf = [t \in Turns |-> <<>>]

\* Variant: messages is declared at module level, one list for all
\* invocations.
MessagesScopeShared(t) == "A"

\* let messages is declared in the handler: one list per invocation.
MessagesScope(t) == t

OnlyTurnsChange ==
    UNCHANGED <<regVars, apiKeySet, turnVars, resVars, envVars, cliVars,
                sdiVars, extVars>>

\* Turn t: the request arrives and the first call is dispatched.
ConcReceive(t) ==
    /\ turns[t].pc = "idle"
    /\ LET msgs == InitialMessages(isInitialized,
                                   [kind |-> "array",
                                    items |-> TurnHistory(t)])
       IN  /\ msgsOf' = [msgsOf EXCEPT ![MessagesScope(t)] = msgs]
           /\ turns' = [turns EXCEPT ![t].pc = "first",
                                     ![t].calls = <<msgs>>]
    /\ OnlyTurnsChange

\* Turn t: the first call settles, with tool-call requests or without.
ConcFirstResponse(t) ==
    /\ turns[t].pc = "first"
    /\ LET msgs == msgsOf[MessagesScope(t)] IN
       \/ /\ turns' = [turns EXCEPT ![t].pc = "second",
                                    ![t].calls = Append(@, msgs)]
          /\ UNCHANGED msgsOf
       \/ /\ isInitialized
          /\ \E tc \in TurnToolCalls(t) :
                /\ msgsOf' = [msgsOf EXCEPT ![MessagesScope(t)] =
                                 Append(msgs,
                                        AssistantMsg([content |-> Undefined,
                                                      tool_calls |-> tc]))]
                /\ turns' = [turns EXCEPT ![t].pc = "invoking",
                                          ![t].toolCalls = tc,
                                          ![t].k = 1]
    /\ OnlyTurnsChange

\* Turn t: the tool call in flight settles, its result is pushed and the
\* loop goes on or the streaming call is dispatched.
ConcToolReturn(t) ==
    /\ turns[t].pc = "invoking"
    /\ LET toolCall == NextCall(turns[t].toolCalls, turns[t].k) IN
       \E response \in {ToolAnswer(toolCall.id), TransportFail} :
          LET text == callToolSettle(toolCall.name, response).text
              msgs == Append(msgsOf[MessagesScope(t)],
                             ToolMsg(toolCall.id, text))
          IN  /\ msgsOf' = [msgsOf EXCEPT ![MessagesScope(t)] = msgs]
              /\ IF turns[t].k = Len(turns[t].toolCalls)
                 THEN turns' = [turns EXCEPT ![t].pc = "second",
                                             ![t].calls = Append(@, msgs)]
                 ELSE turns' = [turns EXCEPT ![t].k = @ + 1]
    /\ OnlyTurnsChange

\* Turn t: the streaming call settles with the stream of this call.
ConcSecondResponse(t) ==
    /\ turns[t].pc = "second"
    /\ turns' = [turns EXCEPT ![t].pc = "streaming",
                              ![t].stream = TurnStream(t)]
    /\ UNCHANGED msgsOf
    /\ OnlyTurnsChange

\* Turn t: one iteration of its relay loop.
ConcStreamFrame(t) ==
    /\ turns[t].pc = "streaming"
    /\ turns[t].pos < Len(turns[t].stream)
    /\ LET content == turns[t].stream[turns[t].pos + 1] IN
       turns' = [turns EXCEPT
                    ![t].pos = @ + 1,
                    ![t].chunks = IF Truthy(content)
                                  THEN resWrite(@, content) ELSE @]
    /\ UNCHANGED msgsOf
    /\ OnlyTurnsChange

\* Turn t: res.end()
ConcStreamEnd(t) ==
    /\ turns[t].pc = "streaming"
    /\ turns[t].pos = Len(turns[t].stream)
    /\ turns' = [turns EXCEPT ![t].pc = "done"]
    /\ UNCHANGED msgsOf
    /\ OnlyTurnsChange

\* The registry is ready and the two requests are still to come.
ConcInit ==
    /\ initialized = TRUE
    /\ client = "connected"
    /\ transport = "set"
    /\ availableTools = <<SearchTool, RecordTool>>
    /\ initPc = "idle"
    /\ initResult = "client"
    /\ discPc = "idle"
    /\ apiKeySet = TRUE
    /\ pc = "idle"
    /\ prompt = [kind |-> "missing", items |-> <<>>]
    /\ mcpEnabled = FALSE
    /\ messages = <<>>
    /\ firstContent = Undefined
    /\ toolCalls = <<>>
    /\ k = 0
    /\ caught = NoError
    /\ headersSent = FALSE
    /\ status = 0
    /\ body = NoBody
    /\ chunks = <<>>
    /\ ended = FALSE
    /\ endCount = 0
    /\ modelCalls = <<>>
    /\ stream = <<>>
    /\ pos = 0
    /\ streamFails = FALSE
    /\ toolLog = <<>>
    /\ received = 0
    /\ buffer = ""
    /\ fullContent = ""
    /\ readerDone = FALSE
    /\ clientGone = FALSE
    /\ writesAtClose = 0
    /\ SdiIdle
    /\ ConcIdle
    /\ ExtIdle

ConcNext ==
    \E t \in Turns :
        \/ ConcReceive(t)
        \/ ConcFirstResponse(t)
        \/ ConcToolReturn(t)
        \/ ConcSecondResponse(t)
        \/ ConcStreamFrame(t)
        \/ ConcStreamEnd(t)

ConcSpec == ConcInit /\ [][ConcNext]_vars

-----------------------------------------------------------------------------
(* The system.                                                              *)

Init ==
    /\ initialized = FALSE
    /\ client = "null"
    /\ transport = "null"
    /\ availableTools = <<>>
    /\ initPc = "idle"
    /\ initResult = "none"
    /\ discPc = "idle"
    /\ apiKeySet \in BOOLEAN
    /\ pc = "idle"
    /\ prompt = [kind |-> "missing", items |-> <<>>]
    /\ mcpEnabled = FALSE
    /\ messages = <<>>
    /\ firstContent = Undefined
    /\ toolCalls = <<>>
    /\ k = 0
    /\ caught = NoError
    /\ headersSent = FALSE
    /\ status = 0
    /\ body = NoBody
    /\ chunks = <<>>
    /\ ended = FALSE
    /\ endCount = 0
    /\ modelCalls = <<>>
    /\ stream = <<>>
    /\ pos = 0
    /\ streamFails = FALSE
    /\ toolLog = <<>>
    /\ received = 0
    /\ buffer = ""
    /\ fullContent = ""
    /\ readerDone = FALSE
    /\ clientGone = FALSE
    /\ writesAtClose = 0
    /\ SdiIdle
    /\ ConcIdle
    /\ ExtIdle

Next ==
    \/ InitializeCall
    \/ ConnectSettle
    \/ ListToolsSettle
    \/ DisconnectCall
    \/ DisconnectFinish
    \/ ReceiveRequest
    \/ FirstResponse
    \/ ToolReturn
    \/ SecondResponse
    \/ StreamFrame
    \/ StreamEnd
    \/ StreamError

Spec == Init /\ [][Next]_vars

\* The SDI routes of one session, with the rest of the server at rest.
SdiSpec == Init /\ [][SdiNext]_vars

\* Every call to the model provider and to the tool server settles, and the
\* provider stream delivers its frames and then ends or fails.
LiveSpec ==
    /\ Init
    /\ [][Next]_vars
    /\ WF_vars(FirstResponse)
    /\ WF_vars(ToolReturn)
    /\ WF_vars(SecondResponse)
    /\ WF_vars(StreamFrame)
    /\ WF_vars(StreamEnd)
    /\ WF_vars(StreamError)

-----------------------------------------------------------------------------
(* The registry on its own, with a tool server that may serve any list and  *)
(* may not answer at all.                                                   *)

\* A second descriptor under the name of SearchTool.
SearchToolAgain ==
    [name |-> "search_catalogue", description |-> "Full-text search",
     inputSchema |-> Undefined]

\* Lists a tool server may answer to listTools, one with a repeated name.
AnyServerToolLists ==
    ServerToolLists \cup {<<SearchTool>>, <<SearchTool, SearchToolAgain>>}

\* client.listTools() settles with any list.
RegistryListTools == ListToolsSettleFrom(AnyServerToolLists)

RegistryNext ==
    \/ InitializeCall
    \/ ConnectSettle
    \/ RegistryListTools
    \/ DisconnectCall
    \/ DisconnectFinish

RegistrySpec == Init /\ [][RegistryNext]_vars

\* The race of connect() against the 10 s timer always settles; nothing in
\* initialize() makes the await of listTools() settle.
RegistryLiveSpec ==
    /\ Init
    /\ [][RegistryNext]_vars
    /\ WF_vars(ConnectSettle)

-----------------------------------------------------------------------------
(* The tool invoker on its own: a turn that is at its first tool call, with *)
(* a tool server that may answer in any shape.                              *)

\* Requests with parseable arguments, for an advertised and for another
\* tool name.
InvokerCalls ==
    {tc \in ToolCallLists(<<SearchTool.name>>) :
        \A i \in 1..Len(tc) : tc[i].arguments = ValidArgs}

\* The state of a turn whose first response asked for the calls of
\* InvokerCalls, with the registry ready, at the await of the first call.
InvokerInit ==
    /\ initialized = TRUE
    /\ client = "connected"
    /\ transport = "set"
    /\ availableTools = <<SearchTool, RecordTool>>
    /\ initPc = "idle"
    /\ initResult = "client"
    /\ discPc = "idle"
    /\ apiKeySet = TRUE
    /\ pc = "invoking"
    /\ prompt = [kind |-> "array", items |-> <<Msg("user", "hello")>>]
    /\ mcpEnabled = TRUE
    /\ firstContent = Undefined
    /\ toolCalls \in InvokerCalls
    /\ messages = <<Msg("system", systemContent(TRUE)), Msg("user", "hello"),
                    AssistantMsg([content |-> Undefined,
                                  tool_calls |-> toolCalls])>>
    /\ k = 1
    /\ caught = NoError
    /\ headersSent = FALSE
    /\ status = 0
    /\ body = NoBody
    /\ chunks = <<>>
    /\ ended = FALSE
    /\ endCount = 0
    /\ modelCalls = <<ApiParams(SubSeq(messages, 1, 2), FALSE,
                                convertToOpenAIFormat)>>
    /\ stream = <<>>
    /\ pos = 0
    /\ streamFails = FALSE
    /\ toolLog = <<[id |-> toolCalls[1].id, name |-> toolCalls[1].name,
                    arguments |-> JSONParse(toolCalls[1].arguments),
                    settled |-> FALSE, response |-> OkNoContent]>>
    /\ received = 0
    /\ buffer = ""
    /\ fullContent = ""
    /\ readerDone = FALSE
    /\ clientGone = FALSE
    /\ writesAtClose = 0
    /\ SdiIdle
    /\ ConcIdle
    /\ ExtIdle

\* The tool call settles with any answer a tool server can give.
InvokerReturn == ToolReturnFrom(InvokerResponses)

InvokerNext ==
    \/ InvokerReturn
    \/ SecondResponse
    \/ StreamFrame
    \/ StreamEnd
    \/ StreamError

InvokerSpec == InvokerInit /\ [][InvokerNext]_vars

-----------------------------------------------------------------------------
(* The wire: data lines written by the chat route and read by the chat      *)
(* client (LLMService.sendMessage and handleNewPrompt run the same loop).   *)
(* Texts are over one-byte characters.                                      *)

RECURSIVE JSONEscape(_)
\* JSON.stringify of the characters of a string: quote, backslash and line
\* feed are escaped.
JSONEscape(str) ==
    IF str = "" THEN ""
    ELSE LET c == CharAt(str, 1) IN
         (IF c = "\"" THEN "\\\""
          ELSE IF c = "\\" THEN "\\\\"
          ELSE IF c = "\n" THEN "\\n"
          ELSE c) \o JSONEscape(SubSeq(str, 2, Len(str)))

\* `data:${JSON.stringify({ content })}\n`
DataLine(content) ==
    "data:" \o "{\"content\":\"" \o JSONEscape(content) \o "\"}" \o "\n"

RECURSIVE Wire(_)
\* The characters of the response body after the given res.write calls.
Wire(written) ==
    IF written = <<>> THEN ""
    ELSE DataLine(Head(written)) \o Wire(Tail(written))

startsWith(str, prefix) ==
    Len(str) >= Len(prefix) /\ SubSeq(str, 1, Len(prefix)) = prefix

\* String.prototype.indexOf, counted from 1; 0 when there is no match.
IndexOf(str, sub) ==
    LET hits == {i \in 1..(Len(str) - Len(sub) + 1) :
                    SubSeq(str, i, i + Len(sub) - 1) = sub}
    IN  IF hits = {} THEN 0
        ELSE CHOOSE i \in hits : \A j \in hits : i <= j

\* String.prototype.replace with a string pattern: the first match only.
ReplaceFirst(str, sub, by) ==
    LET i == IndexOf(str, sub) IN
    IF i = 0 THEN str
    ELSE SubSeq(str, 1, i - 1) \o by \o SubSeq(str, i + Len(sub), Len(str))

IsSpace(c) == c \in {" ", "\n", "\t"}

RECURSIVE Trim(_)
Trim(str) ==
    IF str = "" THEN ""
    ELSE IF IsSpace(CharAt(str, 1)) THEN Trim(SubSeq(str, 2, Len(str)))
    ELSE IF IsSpace(CharAt(str, Len(str)))
         THEN Trim(SubSeq(str, 1, Len(str) - 1))
    ELSE str

ParseFailed == [ok |-> FALSE, text |-> ""]

RECURSIVE JSONUnescape(_)
\* The characters of a JSON string literal without its quotes, for the
\* escapes JSONEscape produces; a bare quote, a bare line feed and any
\* other escape are syntax errors.
JSONUnescape(str) ==
    IF str = "" THEN [ok |-> TRUE, text |-> ""]
    ELSE LET c == CharAt(str, 1) IN
         IF c = "\"" \/ c = "\n" THEN ParseFailed
         ELSE IF c = "\\"
         THEN IF Len(str) < 2 \/ CharAt(str, 2) \notin {"n", "\"", "\\"}
              THEN ParseFailed
              ELSE LET d == CharAt(str, 2)
                       rest == JSONUnescape(SubSeq(str, 3, Len(str)))
                   IN  IF ~rest.ok THEN ParseFailed
                       ELSE [ok |-> TRUE,
                             text |-> (IF d = "n" THEN "\n" ELSE d)
                                      \o rest.text]
         ELSE LET rest == JSONUnescape(SubSeq(str, 2, Len(str))) IN
              IF ~rest.ok THEN ParseFailed
              ELSE [ok |-> TRUE, text |-> c \o rest.text]

\* JSON.parse(json).content for the object the chat route writes.
ClientJSONParse(json) ==
    LET open == "{\"content\":\""
        close == "\"}"
    IN  IF /\ Len(json) >= Len(open) + Len(close)
           /\ startsWith(json, open)
           /\ SubSeq(json, Len(json) - 1, Len(json)) = close
        THEN JSONUnescape(SubSeq(json, Len(open) + 1, Len(json) - 2))
        ELSE ParseFailed

\* The body of for (const chunk of chunks): what one line adds to
\* fullContent; a line that does not parse is logged and skipped.
chunkText(chunk) ==
    IF ~startsWith(chunk, "data:") THEN ""
    ELSE LET json == Trim(ReplaceFirst(ReplaceFirst(chunk, "data:", ""),
                                       "null", ""))
             parsed == ClientJSONParse(json)
         IN  IF parsed.ok THEN parsed.text ELSE ""

RECURSIVE ProcessBuffer(_, _)
\* buffer.split("\n"), the last piece kept as the new buffer and every
\* other piece handled in order.
ProcessBuffer(buf, full) ==
    LET i == IndexOf(buf, "\n") IN
    IF i = 0 THEN [buffer |-> buf, fullContent |-> full]
    ELSE ProcessBuffer(SubSeq(buf, i + 1, Len(buf)),
                       full \o chunkText(SubSeq(buf, 1, i - 1)))

\* One reader.read() that gives data: any non-empty run of the characters
\* written and not yet read.
ClientRead ==
    /\ ~readerDone
    /\ status # 500
    /\ received < Len(Wire(chunks))
    /\ \E n \in 1..(Len(Wire(chunks)) - received) :
          LET value == SubSeq(Wire(chunks), received + 1, received + n)
              after == ProcessBuffer(buffer \o value, fullContent)
          IN  /\ received' = received + n
              /\ buffer' = after.buffer
              /\ fullContent' = after.fullContent
    /\ UNCHANGED <<readerDone, clientGone, writesAtClose, regVars,
                   sdiVars, conVars, extVars, apiKeySet, turnVars, resVars,
                   envVars>>

\* reader.read() answers done: the response has ended and is read up.
ClientDone ==
    /\ ~readerDone
    /\ status # 500
    /\ ended
    /\ received = Len(Wire(chunks))
    /\ readerDone' = TRUE
    /\ UNCHANGED <<received, buffer, fullContent, clientGone,
                   writesAtClose, regVars, sdiVars, conVars, extVars,
                   apiKeySet, turnVars, resVars, envVars>>

\* Provider streams whose deltas hold quotes, a backslash, a line feed,
\* blanks at both ends, the words data: and null.
WireStreams ==
    { <<"Hi ", Undefined, "there">>,
      <<"say \"ok\"\n", " a\\b ">>,
      <<"data:1", "x">>,
      <<"is null", " ok">> }

\* A direct turn of a server without tools at the start of its stream.
WireInit ==
    /\ initialized = FALSE
    /\ client = "null"
    /\ transport = "null"
    /\ availableTools = <<>>
    /\ initPc = "idle"
    /\ initResult = "null"
    /\ discPc = "idle"
    /\ apiKeySet = TRUE
    /\ pc = "streaming"
    /\ prompt = [kind |-> "array", items |-> <<Msg("user", "hello")>>]
    /\ mcpEnabled = FALSE
    /\ messages = <<Msg("system", systemContent(FALSE)), Msg("user", "hello")>>
    /\ firstContent = "Hello, how can I help?"
    /\ toolCalls = <<>>
    /\ k = 0
    /\ caught = NoError
    /\ headersSent = FALSE
    /\ status = 0
    /\ body = NoBody
    /\ chunks = <<>>
    /\ ended = FALSE
    /\ endCount = 0
    /\ modelCalls = <<ApiParams(messages, FALSE, <<>>),
                      ApiParams(messages, TRUE, <<>>)>>
    /\ stream \in WireStreams
    /\ pos = 0
    /\ streamFails \in BOOLEAN
    /\ toolLog = <<>>
    /\ received = 0
    /\ buffer = ""
    /\ fullContent = ""
    /\ readerDone = FALSE
    /\ clientGone = FALSE
    /\ writesAtClose = 0
    /\ SdiIdle
    /\ ConcIdle
    /\ ExtIdle

WireNext ==
    \/ StreamFrame
    \/ StreamEnd
    \/ StreamError
    \/ ClientRead
    \/ ClientDone

WireSpec == WireInit /\ [][WireNext]_vars

-----------------------------------------------------------------------------
(* A client that goes away while the answer is streamed.  The handler       *)
(* registers no listener on req or res and does not look at the state of    *)
(* the socket; res.write on a closed connection returns without throwing.   *)

\* The client closes the connection while the relay loop runs.
ClientClose ==
    /\ pc = "streaming"
    /\ ~clientGone
    /\ clientGone' = TRUE
    /\ writesAtClose' = Len(chunks)
    /\ UNCHANGED <<received, buffer, fullContent, readerDone, regVars,
                   sdiVars, conVars, extVars, apiKeySet, turnVars, resVars,
                   envVars>>

CancelNext ==
    \/ ToolReturn
    \/ SecondResponse
    \/ StreamFrame
    \/ StreamEnd
    \/ StreamError
    \/ ClientClose

\* A turn from its first tool call on, with a client that may go away.
CancelSpec == InvokerInit /\ [][CancelNext]_vars

-----------------------------------------------------------------------------
(* Specifications of the three components above.                            *)

OverlapSpec == Init /\ [][OverlapNext]_vars

ServiceSpec == Init /\ [][ServiceNext]_vars

WindowSpec == Init /\ [][WindowNext]_vars

-----------------------------------------------------------------------------
(* Properties.                                                              *)

IsToolMsg(m) == m.role = "tool"

ToolMessages(msgs) == SelectSeq(msgs, IsToolMsg)

IsErrorText(t) == Len(t) > 5 /\ SubSeq(t, 1, 5) = "Error"

TurnOver == pc = "done"

\* C1: when the first response carries N >= 1 tool-call requests, the
\* message list of the second model call holds exactly N tool messages, the
\* i-th carrying the id of the i-th request, in request order.
C1_ToolResultsInRequestOrder ==
    (Len(toolCalls) >= 1 /\ Len(modelCalls) >= 2) =>
        LET tm == ToolMessages(modelCalls[2].messages) IN
        /\ Len(tm) = Len(toolCalls)
        /\ \A i \in 1..Len(tm) : tm[i].tool_call_id = toolCalls[i].id

\* Two requests whose ids are not in sorted order reached the second call.
C1_Witness ==
    /\ Len(modelCalls) = 2
    /\ Len(toolCalls) = 2
    /\ toolCalls[1].id = CallId(2)
    /\ Len(ToolMessages(modelCalls[2].messages)) = 2

\* The errors the catch block may see that are not failures of a tool call
\* at the tool server.
OtherErrors ==
    {NoError, ProviderError, JSONParseError, NotInitializedError,
     "OPENAI_API_KEY is not set"}

\* C2: a tool invocation that fails at the tool server (thrown transport or
\* protocol failure, unknown tool, result flagged isError) does not abort
\* the turn: its error text is appended as the tool message of that call,
\* the failure is never what the catch block sees, the loop goes on to the
\* next request, after the last one the second model call is issued, and a
\* turn that ends without another error ends as a stream.
C2_ToolFailureDoesNotAbort ==
    \A i \in 1..Len(toolLog) :
        (toolLog[i].settled /\ ServerFailed(toolLog[i].response)) =>
            LET tm == ToolMessages(messages) IN
            /\ Len(tm) >= i
            /\ tm[i].tool_call_id = toolLog[i].id
            /\ IsErrorText(tm[i].content)
            /\ caught \in OtherErrors
            /\ (i < Len(toolCalls) =>
                    \/ Len(toolLog) > i
                    \/ caught \in {JSONParseError, NotInitializedError})
            /\ (i = Len(toolCalls) => Len(modelCalls) = 2)
            /\ (TurnOver /\ caught = NoError =>
                    /\ status = 200
                    /\ body = NoBody
                    /\ Len(toolLog) = Len(toolCalls)
                    /\ Len(modelCalls) = 2)

\* The first of two tool calls threw at the tool server, the second was
\* still executed and the turn ended with streamed chunks.
C2_Witness ==
    /\ TurnOver
    /\ Len(toolLog) = 2
    /\ toolLog[1].response.throws
    /\ toolLog[2].settled
    /\ status = 200
    /\ caught = NoError
    /\ Len(chunks) = 2

HasMalformedArgs ==
    \E i \in 1..Len(toolCalls) : ~JSONParse(toolCalls[i].arguments).ok

\* C3: a tool call whose argument string is malformed is handled like a
\* tool execution error: a turn with such a call that neither loses the
\* provider nor the registry still gives every request its tool message,
\* an error text for the malformed one, and issues the second model call.
C3_MalformedArgumentsFedBack ==
    (/\ TurnOver
     /\ HasMalformedArgs
     /\ caught \notin {ProviderError, NotInitializedError}) =>
        LET tm == ToolMessages(messages) IN
        /\ caught # JSONParseError
        /\ Len(modelCalls) = 2
        /\ Len(tm) = Len(toolCalls)
        /\ \A i \in 1..Len(tm) :
              ~JSONParse(toolCalls[i].arguments).ok =>
                  IsErrorText(tm[i].content)

ToolNames == {SearchTool.name, RecordTool.name, UnknownToolName}

AllResponses ==
    {OkText, OkNoContent, ErrText, ErrNoContent, TransportFail, ProtocolFail,
     UnknownThrow, UnknownResult}

TruthyFrames(frames) == SelectSeq(frames, Truthy)

NoToolsParam(call) == ~call.hasTools /\ call.tool_choice = Undefined

\* C5: in degraded mode (registry not ready, or ready with zero tools when
\* the request arrives) the first model call carries neither tools nor
\* tool_choice, no later call of the turn does, no tool is invoked, and a
\* turn the provider serves ends as a stream of the provider's text.
C5_DegradedOffersNoTools ==
    /\ [][(pc \in {"idle", "done"} /\ pc' = "first" /\ getTools = <<>>) =>
              NoToolsParam(modelCalls'[1])]_vars
    /\ []((Len(modelCalls) >= 1 /\ NoToolsParam(modelCalls[1])) =>
              /\ \A i \in 1..Len(modelCalls) : NoToolsParam(modelCalls[i])
              /\ toolCalls = <<>>
              /\ toolLog = <<>>
              /\ caught \in {NoError, ProviderError}
              /\ (TurnOver /\ caught = NoError =>
                      /\ status = 200
                      /\ body = NoBody
                      /\ chunks = TruthyFrames(stream)))

\* A turn taken with the registry ready but holding no tool was answered
\* from the provider stream.
C5_Witness ==
    /\ TurnOver
    /\ mcpEnabled
    /\ Len(modelCalls) = 2
    /\ NoToolsParam(modelCalls[1])
    /\ chunks = <<"Found ", "3 datasets">>

\* C6: a failed connect is not fatal.  initializeMCP returns null and
\* never throws, the failed attempt writes no field so that the registry
\* stays not ready with getTools() empty, and a turn taken while the
\* registry is not ready is accepted, offers no tools and, when the
\* provider serves it, ends as a stream.
C6_FailedConnectNotFatal ==
    /\ [][(initPc # "idle" /\ initPc' = "idle" /\ ~initialized') =>
              /\ initResult' = "null"
              /\ ~isInitialized'
              /\ getTools' = <<>>
              /\ availableTools' = availableTools
              /\ client' = client]_vars
    /\ [](initResult \in {"none", "client", "null"})
    /\ []((TurnOver /\ ~mcpEnabled /\ ~InvalidPrompt(prompt) /\ apiKeySet) =>
              /\ NoToolsParam(modelCalls[1])
              /\ caught \in {NoError, ProviderError}
              /\ (caught = NoError =>
                      /\ status = 200
                      /\ ended
                      /\ chunks = TruthyFrames(stream)))

\* After a failed connect (the client object of the attempt is still held)
\* a turn for "hello" was answered.
C6_Witness ==
    /\ initResult = "null"
    /\ ~initialized
    /\ client = "created"
    /\ TurnOver
    /\ ~mcpEnabled
    /\ prompt.items = <<Msg("user", "hello")>>
    /\ status = 200
    /\ Len(chunks) = 2

\* C7: when the provider fails on the first dispatch the turn ends at once
\* with the structured 500 error: no chunk, no tool invocation, no second
\* model call.
C7_FirstDispatchFailureIsStructured ==
    [][(pc = "first" /\ caught' = ProviderError) =>
           /\ pc' = "done"
           /\ status' = 500
           /\ body' = [error |-> "Internal server error",
                       message |-> ProviderError]
           /\ chunks' = <<>>
           /\ toolLog' = <<>>
           /\ Len(modelCalls') = 1
           /\ ended'
           /\ endCount' = 1]_vars

\* The first dispatch offered tools and failed.
C7_Witness ==
    /\ TurnOver
    /\ caught = ProviderError
    /\ Len(modelCalls) = 1
    /\ modelCalls[1].hasTools
    /\ status = 500

\* C8: a provider failure with no chunk written gives the structured error
\* and no chunk; with a chunk written it gives exactly one more chunk, the
\* error text, as the last chunk and the stream is closed.  No response
\* carries both a structured error and chunks.
C8_ProviderFailureByEmission ==
    /\ [][(caught = NoError /\ caught' = ProviderError) =>
              /\ pc' = "done"
              /\ ended'
              /\ endCount' = 1
              /\ IF chunks = <<>>
                 THEN /\ status' = 500
                      /\ body' # NoBody
                      /\ chunks' = <<>>
                 ELSE /\ chunks' = Append(chunks, "Error: " \o ProviderError)
                      /\ body' = NoBody
                      /\ status' = 200]_vars
    /\ [](body # NoBody => chunks = <<>>)

\* The stream failed after two chunks and the error chunk closed it.
C8_Witness ==
    /\ TurnOver
    /\ caught = ProviderError
    /\ body = NoBody
    /\ chunks = <<"Found ", "3 datasets", "Error: " \o ProviderError>>

TurnRunning == pc \in {"first", "invoking", "second", "streaming"}

\* C9: every turn terminates.  When the provider and the tool server settle
\* every call, a running turn reaches its end; a turn that is over has
\* finished its response exactly once, as a stream (200) or as a structured
\* 400 or 500 error, and a running turn has not finished it.
C9_TurnTerminates ==
    /\ TurnRunning ~> TurnOver
    /\ [](TurnOver => (ended /\ endCount = 1 /\ status \in {200, 400, 500}))
    /\ [](TurnRunning => (~ended /\ endCount = 0))

\* A turn with two tool calls ran to the end of its stream.
C9_Witness ==
    /\ TurnOver
    /\ Len(toolLog) = 2
    /\ pos = 3
    /\ ended
    /\ endCount = 1
    /\ status = 200

\* C10: a turn whose model calls succeed writes at least one chunk before
\* the response is closed.
C10_StreamNeverEmpty ==
    (/\ TurnOver
     /\ ~InvalidPrompt(prompt)
     /\ apiKeySet
     /\ caught # ProviderError) =>
        /\ status = 200
        /\ Len(chunks) >= 1

RECURSIVE Concat(_)
\* The text a client gets by concatenating chunk contents in order.
Concat(seq) == IF seq = <<>> THEN "" ELSE Head(seq) \o Concat(Tail(seq))

\* C11: when the first response carries no tool-call request, the content
\* streamed to the client is the content of that first response.
C11_DirectAnswerIsFirstResponse ==
    (/\ TurnOver
     /\ Len(modelCalls) >= 1
     /\ toolCalls = <<>>
     /\ caught = NoError) =>
        Concat(chunks) = firstContent

\* A frame of the provider stream that carries a non-empty textual delta.
HasText(frame) == frame # Undefined /\ Len(frame) > 0

\* The chunks written by the relay loop, without the error chunk a failure
\* after the first write appends.
RelayedChunks ==
    IF caught # NoError /\ body = NoBody
    THEN SubSeq(chunks, 1, Len(chunks) - 1)
    ELSE chunks

\* C12: the relay keeps the generation order and drops nothing.  At every
\* moment the chunks written are exactly the non-empty textual deltas of
\* the frames consumed so far, in the same order: each one is written
\* before the next frame is consumed.
C12_RelayPreservesOrder ==
    RelayedChunks = SelectSeq(SubSeq(stream, 1, pos), HasText)

\* The loop is still reading and both textual deltas are already written.
C12_Witness ==
    /\ pc = "streaming"
    /\ pos = 3
    /\ chunks = <<"Found ", "3 datasets">>

\* C13: no chunk with an empty content is written.  Frames without a
\* textual delta are skipped and the error chunk is not empty either.
C13_NoEmptyChunk ==
    \A i \in 1..Len(chunks) : chunks[i] # Undefined /\ Len(chunks[i]) > 0

\* The empty delta after the first chunk was consumed and skipped.
C13_Witness ==
    /\ pc = "streaming"
    /\ pos = 2
    /\ stream[2] = ""
    /\ chunks = <<"Found ">>

\* C15: whenever the registry is not connected (never initialized, failed
\* initialization, after disconnect) both projections of the tool cache,
\* convertToOpenAIFormat and getTools, are the empty sequence.
C15_ProjectionEmptyWhenNotConnected ==
    ~isInitialized => (convertToOpenAIFormat = <<>> /\ getTools = <<>>)

\* C16: two reads of the tool specs return the same sequence unless a
\* reconnect completed between them: no step other than the completion of
\* initialize() changes what convertToOpenAIFormat returns, be it a step
\* of a chat turn, of a tool invocation or of disconnect().
C16_ToolSpecsStableBetweenReconnects ==
    [][convertToOpenAIFormat' # convertToOpenAIFormat =>
          (initPc = "listing" /\ initPc' = "idle" /\ isInitialized')]_vars

\* A turn with two tool invocations is over and a read of the tool specs
\* returns what the first dispatch of the turn read.
C16_Witness ==
    /\ TurnOver
    /\ Len(toolLog) = 2
    /\ \A i \in 1..2 : toolLog[i].settled
    /\ Len(convertToOpenAIFormat) = 2
    /\ modelCalls[1].tools = convertToOpenAIFormat

\* The positions of the tool-server log whose invocation has not settled.
InFlight == {i \in 1..Len(toolLog) : ~toolLog[i].settled}

\* C17: the tool calls of one response are invoked one at a time in request
\* order.  At most one invocation is in flight; the i-th invocation is that
\* of the i-th request; while it is in flight exactly the i-1 earlier
\* results are in the message list, each under the id of its request.
C17_ToolCallsStrictlySequential ==
    LET tm == ToolMessages(messages) IN
    /\ Cardinality(InFlight) <= 1
    /\ \A i \in 1..Len(toolLog) :
          /\ i <= Len(toolCalls)
          /\ toolLog[i].id = toolCalls[i].id
          /\ toolLog[i].name = toolCalls[i].name
          /\ i \in InFlight => (i = Len(toolLog) /\ Len(tm) = i - 1)
          /\ i < Len(toolLog) =>
                /\ toolLog[i].settled
                /\ Len(tm) >= i
                /\ tm[i].tool_call_id = toolCalls[i].id

\* The second invocation is in flight and only the first result is in the
\* message list.
C17_Witness ==
    /\ pc = "invoking"
    /\ Len(toolLog) = 2
    /\ InFlight = {2}
    /\ Len(ToolMessages(messages)) = 1
    /\ toolCalls[1].id # toolCalls[2].id

\* The assistant messages of the list that request tool calls.
ToolRounds == {i \in 1..Len(messages) : messages[i].tool_calls # <<>>}

\* What holds of the model calls of a turn in every state.
OnlyFirstCallOffersTools ==
    /\ Len(modelCalls) <= 2
    /\ Len(modelCalls) >= 1 => ~modelCalls[1].stream
    /\ \A i \in 2..Len(modelCalls) :
          modelCalls[i].stream /\ NoToolsParam(modelCalls[i])
    /\ Cardinality(ToolRounds) <= 1
    /\ Len(toolLog) <= Len(toolCalls)

\* What holds of the step that issues the first model call.
FirstDispatchOffersCurrentTools ==
    (pc # "first" /\ pc' = "first") =>
        LET call == modelCalls'[1] IN
        /\ Len(modelCalls') = 1
        /\ ~call.stream
        /\ IF isInitialized /\ convertToOpenAIFormat # <<>>
           THEN /\ call.hasTools
                /\ call.tools = convertToOpenAIFormat
                /\ call.tool_choice = "auto"
           ELSE NoToolsParam(call)

\* C18: tools are offered on the first dispatch only.  The first model call
\* is not streaming and carries the current tool specs with tool_choice
\* "auto" when the registry is ready; a later call of the turn is streaming
\* and has no tools parameter, there are at most two calls and one
\* assistant message requesting tools, so one round of tool calls at most.
C18_ToolsOnlyOnFirstDispatch ==
    []OnlyFirstCallOffersTools /\ [][FirstDispatchOffersCurrentTools]_vars

\* A turn offered tools, ran two invocations and streamed its answer from a
\* second call without tools.
C18_Witness ==
    /\ TurnOver
    /\ caught = NoError
    /\ Len(modelCalls) = 2
    /\ modelCalls[1].hasTools
    /\ modelCalls[2].stream
    /\ Len(toolLog) = 2
    /\ Len(chunks) = 2

\* The tool names offered to the model by the first dispatch of the turn.
Advertised ==
    IF modelCalls = <<>> THEN {}
    ELSE {modelCalls[1].tools[j].function.name :
             j \in 1..Len(modelCalls[1].tools)}

\* C19 as stated: every tool invoked in a turn has a name that the first
\* dispatch of the turn advertised; a request for another name is not
\* forwarded to the tool server.
C19_InvokedToolsWereAdvertised ==
    \A i \in 1..Len(toolLog) : toolLog[i].name \in Advertised

\* C19 amended: a request with parseable arguments is forwarded to the tool
\* server under the name the model gave, advertised or not.  For a name
\* that was not advertised the failure of the tool server comes back as the
\* error text of the tool message of that request, and it does not end the
\* turn in the catch block.
C19_UnknownToolForwardedAsErrorText ==
    LET tm == ToolMessages(messages) IN
    \A i \in 1..Len(toolLog) :
        /\ toolLog[i].name = toolCalls[i].name
        /\ (toolLog[i].settled /\ toolLog[i].name \notin Advertised) =>
              /\ ServerFailed(toolLog[i].response)
              /\ Len(tm) >= i
              /\ tm[i].tool_call_id = toolLog[i].id
              /\ IsErrorText(tm[i].content)
              /\ caught \in {NoError, ProviderError, JSONParseError,
                             NotInitializedError}

\* A turn that invoked a tool the registry had not advertised streamed its
\* answer to the end.
C19_Witness ==
    /\ TurnOver
    /\ caught = NoError
    /\ Len(chunks) = 2
    /\ \E i \in 1..Len(toolLog) :
          /\ toolLog[i].name = UnknownToolName
          /\ UnknownToolName \notin Advertised
          /\ toolLog[i].settled

\* The successful answers that carry no usable text: no content, an empty
\* content list, a first item that is not text, a text item without text or
\* with the empty text.
SuccessWithoutText ==
    {OkNoContent, OkAbsent, OkImage, OkTextless, OkEmptyText}

\* C20: the text of a tool result is never empty.  Every settled
\* invocation, whatever the tool server answered or threw, has its tool
\* message with a non-empty text, and the text is 'No result' when a
\* successful answer has no usable text.
C20_ToolResultTextNeverEmpty ==
    LET tm == ToolMessages(messages) IN
    /\ \A i \in 1..Len(tm) :
          tm[i].content # Undefined /\ Len(tm[i].content) > 0
    /\ \A i \in 1..Len(toolLog) :
          toolLog[i].settled =>
             /\ Len(tm) >= i
             /\ toolLog[i].response \in SuccessWithoutText =>
                   tm[i].content = "No result"

\* One invocation got a success whose first item is not text, the next one
\* a failure thrown without a message, and both results are in the list.
C20_Witness ==
    /\ Len(toolLog) = 2
    /\ toolLog[1].settled /\ toolLog[1].response = OkImage
    /\ toolLog[2].settled /\ toolLog[2].response = ThrowsEmptyMessage
    /\ ToolMessages(messages)[1].content = "No result"
    /\ Len(ToolMessages(messages)) = 2

\* C14: the wire format round trips.  When the client has read the whole
\* response, whatever the reads were, its fullContent is the concatenation
\* of the chunk contents the server wrote, in order.
C14_WireRoundTrip ==
    readerDone => fullContent = Concat(chunks)

\* The answers of the tool server that are a success whose first content
\* item is a non-empty text.
SuccessWithText(r) ==
    /\ ~r.throws
    /\ ~r.isError
    /\ r.hasContent
    /\ Len(r.content) > 0
    /\ r.content[1].type = "text"
    /\ r.content[1].text # Undefined
    /\ Len(r.content[1].text) > 0

\* C21: when the tool server answers a request with a success that carries
\* a textual payload, the tool message the second model call receives for
\* that request holds exactly the payload text, under the id of the request.
C21_PayloadReachesSecondDispatch ==
    Len(modelCalls) >= 2 =>
        LET tm == ToolMessages(modelCalls[2].messages) IN
        \A i \in 1..Len(toolLog) :
            (toolLog[i].settled /\ SuccessWithText(toolLog[i].response)) =>
                /\ Len(tm) >= i
                /\ tm[i].content = toolLog[i].response.content[1].text
                /\ tm[i].tool_call_id = toolCalls[i].id

\* The second model call was issued after a tool answered with the payload
\* "Found 3 results...".
C21_Witness ==
    /\ Len(modelCalls) = 2
    /\ Len(toolLog) >= 1
    /\ toolLog[1].settled
    /\ toolLog[1].response = OkText
    /\ ToolMessages(modelCalls[2].messages)[1].content = "Found 3 results..."

\* C29: shape of the message lists.  The first model call receives the
\* system message followed by the caller's history in its order.  When
\* tool calls were requested, the second call receives that same list, then
\* the assistant message with its tool-call requests once, then one tool
\* message per request, and nothing else.
C29_MessageListShape ==
    /\ Len(modelCalls) >= 1 =>
          modelCalls[1].messages =
             <<Msg("system", systemContent(mcpEnabled))>> \o prompt.items
    /\ (Len(modelCalls) >= 2 /\ toolCalls # <<>>) =>
          LET first == modelCalls[1].messages
              second == modelCalls[2].messages
              n == Len(first)
          IN  /\ Len(second) = n + 1 + Len(toolCalls)
              /\ SubSeq(second, 1, n) = first
              /\ second[n + 1].role = "assistant"
              /\ second[n + 1].tool_calls = toolCalls
              /\ \A i \in 1..Len(toolCalls) :
                    /\ second[n + 1 + i].role = "tool"
                    /\ second[n + 1 + i].tool_call_id = toolCalls[i].id

\* A turn with a history of three messages and two tool calls issued its
\* second model call with seven messages.
C29_Witness ==
    /\ Len(modelCalls) = 2
    /\ Len(prompt.items) = 3
    /\ Len(toolCalls) = 2
    /\ Len(modelCalls[2].messages) = 7

\* The variables that belong to a chat turn, its response and its calls.
turnState == <<turnVars, resVars, envVars>>

\* What a step that starts a turn leaves of the turn before it: nothing.
FreshTurn ==
    /\ toolCalls' = <<>>
    /\ toolLog' = <<>>
    /\ chunks' = <<>>
    /\ k' = 0
    /\ stream' = <<>>
    /\ pos' = 0
    /\ firstContent' = Undefined
    /\ caught' \in {NoError, "OPENAI_API_KEY is not set"}
    /\ IF InvalidPrompt(prompt')
       THEN messages' = <<>> /\ modelCalls' = <<>>
       ELSE /\ messages' = <<Msg("system", systemContent(isInitialized))>>
                           \o prompt'.items
            /\ \/ modelCalls' = <<>>
               \/ /\ Len(modelCalls') = 1
                  /\ modelCalls'[1] = ApiParams(messages', FALSE,
                                                modelCalls'[1].tools)

\* C30: a chat turn leaves the registry as it was.  No step of a turn,
\* whatever its outcome, changes the ready flag, the cached tool list or the
\* client handle, and the step that starts the next turn builds its state
\* from the request alone: nothing of the turn before survives.
C30_TurnLeavesRegistryUnchanged ==
    [][/\ turnState' # turnState => regVars' = regVars
       /\ (pc \in {"idle", "done"} /\ turnState' # turnState) => FreshTurn
      ]_vars

\* With the registry ready, a turn whose first tool call failed has ended
\* in a provider error.
C30_Witness ==
    /\ TurnOver
    /\ caught = ProviderError
    /\ Len(toolLog) = 2
    /\ ServerFailed(toolLog[1].response)
    /\ isInitialized
    /\ client = "connected"
    /\ availableTools = <<SearchTool, RecordTool>>

\* C24: the registry cache, that is the ready flag and the tool list, is
\* not written while a chat turn is in progress, whatever the interleaving
\* of start-up, initialize(), disconnect() and chat requests.
C24_CacheNotMutatedMidTurn ==
    [][TurnRunning =>
          (initialized' = initialized /\ availableTools' = availableTools)
      ]_vars

\* C22: the names of the cached tools are unique.  A list of the tool
\* server with two descriptors of one name is not cached and advertised.
C22_CachedToolNamesUnique ==
    \A i, j \in 1..Len(availableTools) :
        i # j => availableTools[i].name # availableTools[j].name

C26_RelayStopsOnDisconnect ==
    clientGone => Len(chunks) = writesAtClose

SessionFields ==
    {"sdi_connected", "sdi_server", "sdi_username", "sdi_jsessionid",
     "sdi_gnsessionid", "sdi_user_info"}

\* C27: whatever /connect, /disconnect and /status requests were made, the
\* session holds the connected flag, the server, the username, the two
\* session tokens and the user info, and neither a further field nor any
\* value that is the password.
C27_SessionHoldsNoPassword ==
    /\ DOMAIN session = SessionFields
    /\ \A f \in SessionFields \ {"sdi_user_info"} : session[f] # SdiPassword
    /\ \A g \in DOMAIN session.sdi_user_info :
          session.sdi_user_info[g] # SdiPassword

\* The session is connected for the second time, with both tokens stored,
\* after requests that carried the password.
C27_Witness ==
    /\ sdiLog = <<"connected", "disconnect", "connected">>
    /\ session.sdi_connected = JSTrue
    /\ session.sdi_username = "alice"
    /\ session.sdi_jsessionid # Undefined
    /\ session.sdi_gnsessionid # Undefined

\* The last request answered that was a successful connect or a disconnect.
LastSessionChange ==
    LET marks == {i \in 1..Len(sdiLog) :
                     sdiLog[i] \in {"connected", "disconnect"}}
    IN  IF marks = {} THEN "none"
        ELSE sdiLog[CHOOSE i \in marks : \A j \in marks : j <= i]

\* What holds of the session in every state.
StatusFollowsSession ==
    /\ (session.sdi_connected = JSTrue) <=> (LastSessionChange = "connected")
    /\ (sdiLog # <<>> /\ sdiLog[Len(sdiLog)] = "status") =>
          statusReply.connected = (LastSessionChange = "connected")
    /\ LastSessionChange = "disconnect" =>
          /\ session.sdi_server = Undefined
          /\ session.sdi_username = Undefined
          /\ session.sdi_jsessionid = Undefined
          /\ session.sdi_gnsessionid = Undefined
          /\ session.sdi_user_info.kind = Undefined

\* What holds of a step that answers /status.
StatusChangesNothing ==
    sdiLog' = Append(sdiLog, "status") => session' = session

\* C28: /status reports connected exactly when a successful connect was
\* answered and no disconnect after it; a disconnect clears the server, the
\* username, both tokens and the user info; /status changes nothing.
C28_StatusReportsConnection ==
    []StatusFollowsSession /\ [][StatusChangesNothing]_vars

\* Connected, asked, disconnected and asked again: the last answer of
\* /status is not connected.
C28_Witness ==
    /\ sdiLog = <<"connected", "status", "disconnect", "status">>
    /\ ~statusReply.connected
    /\ session.sdi_connected = JSFalse

\* The texts the tool server or the invoker may give for a request.
OwnResultTexts(call) ==
    {callToolSettle(call.name, r).text :
        r \in {ToolAnswer(call.id), TransportFail}}

\* The message list turn t may dispatch after n of its tool results: its
\* system message and history, then its assistant message and the results
\* of its own requests.
OwnMessageList(t, msgs, n) ==
    LET base == <<Msg("system", systemContent(TRUE))>> \o TurnHistory(t)
        calls == turns[t].toolCalls
        b == Len(base)
    IN  /\ Len(msgs) = b + (IF n = 0 THEN 0 ELSE n + 1)
        /\ SubSeq(msgs, 1, b) = base
        /\ n > 0 =>
              /\ msgs[b + 1].role = "assistant"
              /\ msgs[b + 1].tool_calls = calls
              /\ \A i \in 1..n :
                    /\ msgs[b + 1 + i].role = "tool"
                    /\ msgs[b + 1 + i].tool_call_id = calls[i].id
                    /\ msgs[b + 1 + i].content \in OwnResultTexts(calls[i])

\* C25: concurrent chat turns are independent.  In every interleaving of
\* two turns, each model call of a turn receives only the system message,
\* the history, the assistant message and the tool results of that turn,
\* and the chunks written to a response are the deltas of the stream of
\* that turn's own streaming call.
C25_ConcurrentTurnsIndependent ==
    \A t \in Turns :
        /\ Len(turns[t].calls) >= 1 =>
              OwnMessageList(t, turns[t].calls[1], 0)
        /\ Len(turns[t].calls) >= 2 =>
              OwnMessageList(t, turns[t].calls[2], Len(turns[t].toolCalls))
        /\ turns[t].chunks =
              SelectSeq(SubSeq(TurnStream(t), 1, turns[t].pos), HasText)

\* Turn A waits for its second tool call while turn B, which called a
\* tool as well, is in the middle of its stream.
C25_Witness ==
    /\ turns["A"].pc = "invoking"
    /\ turns["A"].k = 2
    /\ turns["B"].pc = "streaming"
    /\ turns["B"].toolCalls # <<>>
    /\ turns["B"].chunks = <<"Answer ">>

\* The entries of the tool-server log that were sent for request j of the
\* model response.
SentFor(j) == {i \in 1..Len(toolLog) : toolLog[i].id = toolCalls[j].id}

\* C31: each tool call the model requests is sent to the tool server at most
\* once.  The server receives no more calls than there are requests, no
\* request has two entries in its log, and a call that failed is not
\* followed by another call for the same request.
C31_EachRequestSentAtMostOnce ==
    /\ Len(toolLog) <= Len(toolCalls)
    /\ \A j \in 1..Len(toolCalls) : Cardinality(SentFor(j)) <= 1
    /\ \A i \in 1..Len(toolLog) :
          (toolLog[i].settled /\ ServerFailed(toolLog[i].response)) =>
              \A n \in (i + 1)..Len(toolLog) : toolLog[n].id # toolLog[i].id

\* The first call failed on the server, the turn went on to the second
\* request, and the server saw each request once.
C31_Witness ==
    /\ Len(toolCalls) = 2
    /\ Len(toolLog) = 2
    /\ toolLog[1].settled
    /\ ServerFailed(toolLog[1].response)
    /\ toolLog[2].settled
    /\ Cardinality(SentFor(1)) = 1
    /\ Cardinality(SentFor(2)) = 1

\* C32: the projection of the cached descriptors is one-to-one and keeps
\* their order.  Entry n is of type function, has the name of descriptor n,
\* its description (the empty string when absent) and its schema unchanged
\* (the empty object schema when absent).
C32_ProjectionOneToOneInOrder ==
    LET out == convertToOpenAIFormat IN
    /\ Len(out) = Len(availableTools)
    /\ \A n \in 1..Len(availableTools) :
          LET tool == availableTools[n] IN
          /\ out[n].type = "function"
          /\ out[n].function.name = tool.name
          /\ out[n].function.description =
                (IF tool.description \in {Undefined, ""}
                 THEN "" ELSE tool.description)
          /\ out[n].function.parameters =
                (IF tool.inputSchema = Undefined
                 THEN DefaultSchema ELSE tool.inputSchema)

\* Two descriptors are cached, the second without description and schema.
C32_Witness ==
    /\ Len(availableTools) = 2
    /\ availableTools[1].description # Undefined
    /\ availableTools[2].description = Undefined
    /\ availableTools[2].inputSchema = Undefined
    /\ convertToOpenAIFormat[2].function.parameters = DefaultSchema

\* C33: a request whose prompt is missing or is not an array is answered
\* with status 400 and a structured error before anything else happens: no
\* model call, no tool call, no stream.
C33_InvalidPromptRejectedFirst ==
    (TurnOver /\ prompt.kind # "array") =>
        /\ status = 400
        /\ body # NoBody
        /\ body.error = "Invalid request"
        /\ ended
        /\ modelCalls = <<>>
        /\ toolLog = <<>>
        /\ chunks = <<>>
        /\ messages = <<>>

\* A prompt that is a string and not an array was rejected.
C33_Witness ==
    /\ TurnOver
    /\ prompt.kind = "string"
    /\ status = 400
    /\ modelCalls = <<>>

\* C34: the tools-aware system message is used exactly when the first
\* dispatch carries a non-empty tools parameter.
C34_ToolsPromptIffToolsOffered ==
    Len(modelCalls) >= 1 =>
        ((modelCalls[1].messages[1].content = ToolsSystemContent)
            <=> ~NoToolsParam(modelCalls[1]))

\* C36: a /connect request that does not succeed leaves the session data
\* unchanged; a connection established before stays in the session with its
\* server, user and tokens.
C36_FailedConnectKeepsSession ==
    [][sdiLog' = Append(sdiLog, "connect failed") => session' = session]_vars

\* A /connect failed after one had succeeded, and the session still holds
\* the first connection.
C36_Witness ==
    /\ Len(sdiLog) >= 2
    /\ sdiLog[1] = "connected"
    /\ sdiLog[2] = "connect failed"
    /\ session.sdi_connected = JSTrue
    /\ session.sdi_username = "alice"
    /\ session.sdi_server # Undefined

\* C37: a session marked connected holds at least one of the two tokens
\* and holds server and username; the user-info request, whatever its
\* outcome, is followed by the stored connection.
C37_ConnectedSessionHasTokenServerUser ==
    /\ [](session.sdi_connected = JSTrue =>
            /\ \/ session.sdi_jsessionid # Undefined
               \/ session.sdi_gnsessionid # Undefined
            /\ session.sdi_server # Undefined
            /\ session.sdi_username # Undefined)
    /\ [][(sdiPending.stage = "me" /\ sdiPending'.stage # "me") =>
            /\ session'.sdi_connected = JSTrue
            /\ sdiLog' = Append(sdiLog, "connected")]_vars

\* The connection was stored with one token only and without user data.
C37_Witness ==
    /\ session.sdi_connected = JSTrue
    /\ session.sdi_gnsessionid = Undefined
    /\ session.sdi_jsessionid = "js-91c7"
    /\ session.sdi_user_info = UserInfoEmpty
    /\ session.sdi_server = DefaultSdiServer

\* The Client objects whose connection is being opened or is open.
OpenConnections == {h \in 1..Len(handles) : handles[h] # "failed"}

\* Caller c enters initialize() in this step.
EntersInitialize(c) ==
    /\ ovCalls[c].pc \in {"idle", "thrown"}
    /\ ovCalls'[c].pc # ovCalls[c].pc

\* A call of initialize() on a ready registry changes no field of it.
ReadyCallIsNoOp ==
    [][(initialized /\ \E c \in Callers : EntersInitialize(c)) =>
          UNCHANGED <<initialized, client, transport, availableTools,
                      clientId, handles, cachedOn>>]_vars

\* The cached list was listed on the Client the wrapper refers to.
CacheBelongsToKeptClient == initialized => cachedOn = clientId

\* C35: initialize() connects at most once.  A call on a ready registry
\* leaves client and cached list unchanged; whatever the interleaving of
\* overlapping calls, one connection only is opened and the cached list is
\* that of the Client the wrapper keeps.
C35_InitializeConnectsAtMostOnce ==
    /\ [](Cardinality(OpenConnections) <= 1)
    /\ []CacheBelongsToKeptClient
    /\ ReadyCallIsNoOp

\* C38: whenever the browser's MCPService is initialized, its SSE
\* connection is marked connected and its EventSource exists.
C38_InitializedImpliesSseConnected ==
    svcInitialized => (sseConnected /\ eventSource # 0)

\* The messages of the window that show the text typed for prompt c.
UserMessagesOf(c) ==
    {i \in 1..Len(chatGptMessages) :
        /\ chatGptMessages[i].role = "user"
        /\ chatGptMessages[i].content = UiInput(c)}

\* What an assistant message of prompt c can hold: the chunks of its
\* stream read so far, joined.
ShownTexts(c) == {Concat(SubSeq(UiStream(c), 1, n)) : n \in 1..Len(UiStream(c))}

AssistantMessagesOf(c) ==
    {i \in 1..Len(chatGptMessages) :
        /\ chatGptMessages[i].role = "assistant"
        /\ chatGptMessages[i].content \in ShownTexts(c)}

\* C39: every submitted prompt adds exactly one user message and at most
\* one assistant message to the window, and every assistant message holds
\* chunks of one prompt's stream only; also when a prompt is submitted while
\* the answer to another is streamed.
C39_OneUserOneAssistantPerPrompt ==
    /\ \A c \in Submits :
          /\ Cardinality(UserMessagesOf(c)) =
                (IF uiCalls[c].pc = "idle" THEN 0 ELSE 1)
          /\ Cardinality(AssistantMessagesOf(c)) <= 1
    /\ \A i \in 1..Len(chatGptMessages) :
          chatGptMessages[i].role = "assistant" =>
              \E c \in Submits : i \in AssistantMessagesOf(c)
====
